---- MODULE Spec2Model ----
(***************************************************************************)
(* A model of the core transcription service: the bot session lifecycle    *)
(* (core_service/main.py, core_service/session_manager.py) and the webhook *)
(* dispatcher (core_service/webhook_delivery.py).                          *)
(*                                                                         *)
(* Spec        the lifecycle of one session on the asyncio event loop:     *)
(*             the create request, the background run_bot_session task,    *)
(*             leave requests, the meeting-ended task and shutdown, with   *)
(*             interleaving only where a coroutine really suspends.        *)
(* SpecDeliver deliver_webhook and its two wrappers applied to bounded     *)
(*             inputs (URL, debug flag, retry count, endpoint behaviour).  *)
(* SpecTranscription                                                       *)
(*             one TranscriptionManager (core_service/transcription.py):   *)
(*             add_audio on the platform's thread, the idle sweep and      *)
(*             finish_all on the loop's thread, closes by the provider.    *)
(* SpecRegistry                                                            *)
(*             one SessionManager: overlapping create_session calls, the   *)
(*             lookups, remove_session, end_session and the state changes  *)
(*             of the registered sessions.                                 *)
(* SpecLive    Spec with the fairness of the event loop's scheduling.      *)
(* SpecOnLoop, SpecOnLoopLive                                              *)
(*             the lifecycle with on_meeting_ended run as a task of the    *)
(*             loop, which the adapter's callback does not achieve.        *)
(* SpecCleanup one session's transcription manager and cleanup().          *)
(* SpecTranscripts                                                         *)
(*             the transcripts of the speakers' streams from the           *)
(*             provider's callback to the endpoint.                        *)
(* SpecLock    the SessionManager's methods with _sessions_lock visible.   *)
(* SpecSingleton                                                           *)
(*             SessionManager() called by several threads.                 *)
(* SpecSweep   cleanup_idle_handlers step by step against add_audio.       *)
(***************************************************************************)
EXTENDS Integers, Sequences, FiniteSets, TLC

\* ------------------------------------------------------------------ bounds

\* Largest retry_count drawn (settings.webhook_retry_count or the argument).
MaxRetry == 1
\* The wall clock (datetime.now) takes the values 1..MaxClock.
MaxClock == 2
\* Number of POST /bots/{id}/leave requests that may be issued.
MaxLeave == 1
\* Handlers one TranscriptionManager makes at most.
MaxHandlers == 2
\* The largest silence timeout drawn, in clock ticks.
MaxSilence == 1
\* Sessions one SessionManager creates at most.
MaxSessions == 2
\* create_session calls in progress at once.
MaxCreators == 2
\* Transcripts the provider emits per speaker.
MaxTranscripts == 2

\* ------------------------------------------------------------- BotState

PENDING == "pending"
JOINING == "joining"
IN_MEETING == "in_meeting"
LEAVING == "leaving"
ENDED == "ended"
FAILED == "failed"

BotState == {PENDING, JOINING, IN_MEETING, LEAVING, ENDED, FAILED}

\* Optional values: None for a timestamp is 0, for a message NoMessage.
NoMessage == "<none>"

\* --------------------------------------------------------- webhook URLs

(* A URL as urlparse sees it: the scheme, and the netloc split into        *)
(* userinfo, host and port.  The host is the sequence of its dot-separated *)
(* labels (<<>> when the netloc names no host), so that a prefix test such *)
(* as startswith("10.") is a test on the leading labels.                   *)
Url(scheme, userinfo, host, port) ==
    [scheme |-> scheme, userinfo |-> userinfo, host |-> host, port |-> port]

HttpsExample == Url("https", "", <<"example", "com">>, "")
HttpExample == Url("http", "", <<"example", "com">>, "")
HttpsLocalhost == Url("https", "", <<"localhost">>, "")
HttpsUpperLocalhost == Url("https", "", <<"LOCALHOST">>, "")
HttpsLoopback == Url("https", "", <<"127", "0", "0", "1">>, "")
HttpsPrivate192 == Url("https", "", <<"192", "168", "1", "1">>, "")
HttpsPrivate10 == Url("https", "", <<"10", "0", "0", "1">>, "")
FtpExample == Url("ftp", "", <<"example", "com">>, "")
PathOnly == Url("", "", <<>>, "")
\* file:///etc/passwd: a scheme and an empty netloc
FileEtcPasswd == Url("file", "", <<>>, "")
\* https://0.0.0.0/x and https://[::1]/x
HttpsAnyInterface == Url("https", "", <<"0", "0", "0", "0">>, "")
HttpsIpv6Loopback == Url("https", "", <<"::1">>, "")
\* https://:80/x: the netloc is ":80", parsed.hostname is None
HttpsPortOnly == Url("https", "", <<>>, "80")

Urls ==
    { HttpsExample, HttpExample, HttpsLocalhost, HttpsUpperLocalhost,
      HttpsLoopback, HttpsPrivate192, HttpsPrivate10, FtpExample, PathOnly,
      FileEtcPasswd, HttpsAnyInterface, HttpsIpv6Loopback, HttpsPortOnly }

\* str.lower() on the labels that occur.
Lower(label) == IF label = "LOCALHOST" THEN "localhost" ELSE label

\* urlparse(url).netloc is non-empty
HasNetloc(url) == url.userinfo # "" \/ url.host # <<>> \/ url.port # ""

\* parsed.hostname.lower() if parsed.hostname else ""
Hostname(url) == [i \in 1..Len(url.host) |-> Lower(url.host[i])]

blocked_hosts ==
    { <<"localhost">>, <<"127", "0", "0", "1">>, <<"0", "0", "0", "0">>, <<"::1">> }

\* hostname.startswith(prefix + "."), prefix given as its labels
StartsWithLabels(hostname, prefix) ==
    /\ Len(hostname) > Len(prefix)
    /\ \A i \in 1..Len(prefix) : hostname[i] = prefix[i]

_validate_webhook_url(url, dbg) ==
    IF ~dbg /\ url.scheme # "https" THEN FALSE
    ELSE IF url.scheme \notin {"http", "https"} THEN FALSE
    ELSE IF ~HasNetloc(url) THEN FALSE
    ELSE IF Hostname(url) \in blocked_hosts THEN FALSE
    ELSE IF \/ StartsWithLabels(Hostname(url), <<"10">>)
            \/ StartsWithLabels(Hostname(url), <<"192", "168">>) THEN FALSE
    ELSE TRUE

\* ------------------------------------------------------- deliver_webhook

(* What one client.post does: it returns a response with a status code, or *)
(* raises httpx.TimeoutException, httpx.RequestError or another exception. *)
Response(code) == [kind |-> "response", status |-> code]
Raises(kind) == [kind |-> kind, status |-> 0]

StatusCodes == {199, 200, 299, 300, 500}

Outcomes ==
    {Response(c) : c \in StatusCodes}
        \cup {Raises("timeout"), Raises("request_error"), Raises("exception")}

\* The endpoint's behaviour over the attempts of one delivery.
ResponseSeqs(n) == [1..(n + 1) -> Outcomes]

\* The endpoint behaviours drawn when a session's status event is delivered.
SessionOutcomes == {Response(200), Raises("timeout")}
SessionResponseSeqs(n) == [1..(n + 1) -> SessionOutcomes]

\* response.status_code >= 200 and response.status_code < 300
IsSuccess(outcome) ==
    outcome.kind = "response" /\ outcome.status >= 200 /\ outcome.status < 300

AttemptRangeWithoutRetry(retry_count) == 0..(retry_count - 1)

\* range(retry_count + 1)
AttemptRange(retry_count) == 0..retry_count

\* The except clauses of an attempt, without the last one.
CaughtHttpxOnly(outcome) == outcome.kind \in {"timeout", "request_error"}

(* The except clauses of an attempt: httpx.TimeoutException,               *)
(* httpx.RequestError, then Exception, which takes every other exception   *)
(* raised inside the try block.                                            *)
Caught(outcome) == outcome.kind \in {"timeout", "request_error", "exception"}

(* The attempt loop from attempt number `attempt` on, `posts` POSTs made so *)
(* far: the delivery's result, the number of POSTs, and whether an          *)
(* exception left the function.                                             *)
RECURSIVE AttemptLoop(_, _, _, _)
AttemptLoop(attempt, retry_count, responses, posts) ==
    IF attempt \notin AttemptRange(retry_count)
    THEN [ok |-> FALSE, posts |-> posts, raised |-> FALSE]
    ELSE IF IsSuccess(responses[attempt + 1])
         THEN [ok |-> TRUE, posts |-> posts + 1, raised |-> FALSE]
         ELSE IF responses[attempt + 1].kind # "response"
                 /\ ~Caught(responses[attempt + 1])
              THEN [ok |-> FALSE, posts |-> posts + 1, raised |-> TRUE]
              ELSE AttemptLoop(attempt + 1, retry_count, responses, posts + 1)

\* "if retry_count is None: retry_count = settings.webhook_retry_count"
None == -1
RetryCount(retry_count, setting) == IF retry_count = None THEN setting ELSE retry_count

deliver_webhook_unvalidated(url, dbg, retry_count, responses) ==
    AttemptLoop(0, retry_count, responses, 0)

deliver_webhook(url, dbg, retry_count, responses) ==
    IF ~_validate_webhook_url(url, dbg)
    THEN [ok |-> FALSE, posts |-> 0, raised |-> FALSE]
    ELSE AttemptLoop(0, retry_count, responses, 0)

\* -------------------------------------------------- webhook event shapes

\* send_bot_status_event: the data of a bot_status event ("if message:").
send_bot_status_event(status, message) ==
    [event_type |-> "bot_status",
     status |-> status,
     message |-> IF message \in {NoMessage, ""} THEN NoMessage ELSE message]

\* send_transcription_event: the event type it hands to deliver_webhook.
send_transcription_event(text) ==
    [event_type |-> "transcription", status |-> NoMessage, message |-> text]

\* ------------------------------------------------------------ BotSession

Terminal == {ENDED, FAILED}

\* BotSession.__init__: the fields the lifecycle reads and writes.
NewSession ==
    [state |-> PENDING,
     ended_at |-> 0,
     error_message |-> NoMessage,
     transcription_manager |-> FALSE,
     stop_requested |-> FALSE]

set_state_assign_unless_terminal(sess, new_state, message, t) ==
    IF sess.state \in Terminal
    THEN sess
    ELSE [sess EXCEPT
            !.state = new_state,
            !.ended_at = IF new_state \in Terminal THEN t ELSE @,
            !.error_message = IF new_state = FAILED THEN message ELSE @]

\* set_state up to its await: the assignments of lines 197-204.
set_state_assign(sess, new_state, message, t) ==
    [sess EXCEPT
        !.state = new_state,
        !.ended_at = IF new_state \in Terminal THEN t ELSE @,
        !.error_message = IF new_state = FAILED THEN message ELSE @]

set_state_failed_delivery_fails(sess, result) ==
    IF result.ok THEN sess ELSE [sess EXCEPT !.state = FAILED]

\* set_state after its await: the delivery's result is discarded.
set_state_after_delivery(sess, result) == sess

\* A cleanup that keeps the transcription manager.
cleanup_keeping_manager(sess) == [sess EXCEPT !.stop_requested = TRUE]

\* BotSession.cleanup
cleanup(sess) ==
    [sess EXCEPT !.transcription_manager = FALSE, !.stop_requested = TRUE]

\* ----------------------------------------------------------------- tasks

Task(kind, n) == [kind |-> kind, n |-> n]
NoTask == Task("none", 0)
CreateTask == Task("create_bot", 0)
RunTask == Task("run_bot_session", 0)
MeetingEndedTask == Task("on_meeting_ended", 0)
ShutdownTask == Task("lifespan", 0)
LeaveTask(i) == Task("leave_meeting", i)
LeaveTasks == {LeaveTask(i) : i \in 1..MaxLeave}
Tasks == {CreateTask, RunTask, MeetingEndedTask, ShutdownTask} \cup LeaveTasks

NoCall == [state |-> NoMessage, message |-> NoMessage, index |-> 0]

VARIABLES
    debug,                \* settings.debug
    webhook_retry_count,  \* settings.webhook_retry_count
    SELENIUM_AVAILABLE,   \* teams_adapter.SELENIUM_AVAILABLE
    webhook_url,          \* session.webhook_url
    now,                  \* datetime.now(timezone.utc)
    registered,           \* the session is in SessionManager._sessions
    session,              \* the BotSession
    n_status_events,      \* number of bot_status events handed to the dispatcher
    last_status_event,    \* the latest of them, and the coroutine it came from
    drove,                \* the coroutines that have set a terminal state
    last_delivery,        \* result of the latest finished deliver_webhook
    pc,                   \* where each coroutine stands
    cont,                 \* where a coroutine awaiting in set_state continues
    call,                 \* the set_state call each coroutine is inside
    seen,                 \* the state leave_meeting read at its terminal test
    cleaned,              \* the coroutines that have run session.cleanup()
    holder,               \* the coroutine running on the loop without suspending
    adapter_running,      \* TeamsTranscriptionAdapter._running
    d_in,                 \* SpecDeliver: the inputs of one delivery
    d_out,                \* SpecDeliver: its result
    silence_timeout_seconds, \* TranscriptionManager.silence_timeout_seconds
    _handlers,            \* TranscriptionManager._handlers: speaker -> handler
    _last_audio_time,     \* TranscriptionManager._last_audio_time
    _speaker_names,       \* TranscriptionManager._speaker_names: speaker -> name
    handlers,             \* every DeepgramStreamingHandler made, in order
    a_pc,                 \* where the platform thread stands in add_audio
    a_call,               \* the add_audio call it is inside
    tm_last,              \* what the latest manager operation did
    _sessions,            \* SessionManager._sessions: id -> session object
    objects,              \* every BotSession constructed, in order
    c_pc,                 \* where each create_session call stands
    c_obj,                \* the session it has constructed
    ids_made,             \* number of ids uuid4 has produced
    reg_last,             \* the latest SessionManager call and its result
    emitted,              \* transcripts the provider has emitted, per speaker
    in_callback,          \* the speakers whose provider thread is inside on_message
    pending,              \* the transcription deliveries in progress
    received,             \* the transcription events the endpoint accepted, in order
    _sessions_lock,       \* the caller holding SessionManager._sessions_lock
    l_pc,                 \* each caller's position in its SessionManager call
    l_call,               \* each caller's call: method, id, session
    under_lock,           \* what has been done by a holder of _sessions_lock
    _instance,            \* SessionManager._instance
    _initialized,         \* the instance's _initialized attribute
    _lock,                \* the thread holding SessionManager._lock
    g_pc,                 \* where each thread stands in SessionManager()
    maps_made,            \* number of dicts assigned to self._sessions
    scan                  \* the scan of _last_audio_time in progress

vars ==
    <<debug, webhook_retry_count, SELENIUM_AVAILABLE, webhook_url, now,
      registered, session, n_status_events, last_status_event, drove,
      last_delivery, pc, cont, call, seen, cleaned, holder, adapter_running,
      d_in, d_out, silence_timeout_seconds, _handlers, _last_audio_time,
      _speaker_names, handlers, a_pc, a_call, tm_last,
      _sessions, objects, c_pc, c_obj, ids_made, reg_last,
      emitted, in_callback, pending, received,
      _sessions_lock, l_pc, l_call, under_lock,
      _instance, _initialized, _lock, g_pc, maps_made, scan>>

config_vars == <<debug, webhook_retry_count, SELENIUM_AVAILABLE, webhook_url>>
deliver_vars == <<d_in, d_out>>
tm_vars ==
    <<silence_timeout_seconds, _handlers, _last_audio_time, _speaker_names,
      handlers, a_pc, a_call, tm_last>>
reg_vars == <<_sessions, objects, c_pc, c_obj, ids_made, reg_last>>
tr_vars == <<emitted, in_callback, pending, received>>
lock_vars == <<_sessions_lock, l_pc, l_call, under_lock>>
sm_vars == <<_instance, _initialized, _lock, g_pc, maps_made>>
event_vars == <<n_status_events, last_status_event, drove>>

NoEvent == [data |-> send_bot_status_event(NoMessage, NoMessage), by |-> NoTask]
NoDelivery == [ok |-> FALSE, posts |-> -1, raised |-> FALSE]
NoResult ==
    [ok |-> FALSE, posts |-> -1, raised |-> FALSE, event_type |-> NoMessage]
NoInput == [url |-> PathOnly, retry_count |-> None, responses |-> <<>>]

\* ------------------------------------------------ TranscriptionManager

\* The speaker ids the meeting platform sends audio for.
Speakers == {"alice", "bob"}
NoSpeaker == "<nobody>"

\* The speaker_name argument: None or a display name.
SpeakerNames == {NoMessage, "Ann"}

\* A dict restricted to the keys in D, and a dict with one key set.
Restrict(f, D) == [x \in D |-> f[x]]
Put(f, k, v) == [x \in DOMAIN f \cup {k} |-> IF x = k THEN v ELSE f[x]]
Values(f) == {f[x] : x \in DOMAIN f}

(* A DeepgramStreamingHandler once start() has returned: the provider has  *)
(* signalled Open.  finish_calls counts the calls of finish(), dg_finishes *)
(* the calls of dg_connection.finish(), late whether audio reached the     *)
(* connection after the handler had left _handlers.                        *)
NewHandler(speaker_id, speaker_name) ==
    [speaker_id |-> speaker_id, speaker_name |-> speaker_name,
     connected |-> TRUE, finish_calls |-> 0, dg_finishes |-> 0, late |-> FALSE]

(* DeepgramStreamingHandler.finish: "if self._connected" it finishes the   *)
(* connection and clears the flag; when dg_connection.finish() raises the  *)
(* flag stays set and the exception is logged.                             *)
finish(handler, fails) ==
    IF handler.connected
    THEN [handler EXCEPT !.finish_calls = @ + 1,
                         !.dg_finishes = @ + 1,
                         !.connected = fails]
    ELSE [handler EXCEPT !.finish_calls = @ + 1]

\* An idle test that evicts at the timeout already.
IsIdleAtTimeout(current_time, last_time, timeout) ==
    current_time - last_time >= timeout

\* current_time - last_time > self.silence_timeout_seconds
IsIdle(current_time, last_time, timeout) ==
    current_time - last_time > timeout

\* cleanup_idle_handlers: the speakers its first loop collects.
speakers_to_remove(last_audio_time, current_time, timeout) ==
    {s \in DOMAIN last_audio_time :
        IsIdle(current_time, last_audio_time[s], timeout)}

\* Every handler finished: those in `ids`, the close failing for `failing`.
FinishEach(hs, ids, failing) ==
    [h \in DOMAIN hs |->
        IF h \in ids THEN finish(hs[h], h \in failing) ELSE hs[h]]

\* A handler registered before it is started.
register_unstarted(dict, speaker_id, h, started) == Put(dict, speaker_id, h)

(* handler.start(), then self._handlers[speaker_id] = handler: when start  *)
(* raises, the assignment is not reached.                                  *)
register_started(dict, speaker_id, h, started) ==
    IF started THEN Put(dict, speaker_id, h) ELSE dict

\* A send that does not look at the connection's state.
send_forwards_always(handler) == TRUE

(* DeepgramStreamingHandler.send: "if not self._connected" it logs a       *)
(* warning and returns; else the chunk goes to dg_connection.send.         *)
send_forwards(handler) == handler.connected

\* self._speaker_names.get(speaker_id): the name, or None.
NameOf(dict, speaker_id) ==
    IF speaker_id \in DOMAIN dict THEN dict[speaker_id] ELSE NoMessage

\* A lookup that returns whichever handler comes first.
LookupAny(dict, speaker_id) == dict[CHOOSE s \in DOMAIN dict : TRUE]

\* self._handlers[speaker_id]
Lookup(dict, speaker_id) == dict[speaker_id]

\* No TranscriptionManager operation has run.
NoOp == [op |-> "none", raised |-> FALSE]
Did(op) == [op |-> op, raised |-> FALSE]
Raised(op) == [op |-> op, raised |-> TRUE]
\* add_audio whose chunk send() dropped: the handler was not connected.
Dropped == Did("add_audio: not connected")

NoAudioCall == [speaker_id |-> NoSpeaker, handler |-> 0]

\* TranscriptionManager.__init__, with the silence timeout given.
NewManager(timeout) ==
    /\ silence_timeout_seconds = timeout
    /\ _handlers = <<>>
    /\ _last_audio_time = <<>>
    /\ _speaker_names = <<>>
    /\ handlers = <<>>
    /\ a_pc = "idle"
    /\ a_call = NoAudioCall
    /\ tm_last = NoOp

\* The lifecycle and the deliveries keep the manager as a flag only.
NoManager == NewManager(0)

\* ------------------------------------------------- transcript events

\* The value of an event loop attribute that was never assigned.
NoLoop == "None"

\* A BotSession whose _loop is the service's event loop.
_loop_assigned == "service loop"

(* BotSession._loop: __init__ sets it to None and nothing in the service   *)
(* assigns it afterwards.                                                  *)
_loop == NoLoop

\* A transcription delivery: the transcript, the POSTs made, where it runs.
Delivery(speaker_id, seq, on_loop) ==
    [speaker_id |-> speaker_id, seq |-> seq, attempt |-> 0, on_loop |-> on_loop]

\* No transcript has been emitted.
NoTranscripts ==
    /\ emitted = [s \in Speakers |-> 0]
    /\ in_callback = {}
    /\ pending = {}
    /\ received = <<>>

\* ------------------------------------------------------- SessionManager

\* The create_session calls that may be in progress at once.
Creators == 1..MaxCreators

\* The id of no session ("bot_nonexistent") and the ids that are looked up.
UnknownId == 0
LookupIds == 0..MaxSessions

\* An id generator that hands out the same id again.
uuid4_repeating(made) == 1

(* f"bot_{uuid.uuid4().hex[:16]}": 60 random bits, taken never to repeat   *)
(* within a process; the n-th id produced is n.                            *)
uuid4_hex16(made) == made + 1

\* A session whose fields have not been assigned.
BotSession_uninitialised(session_id) ==
    [id |-> session_id, state |-> NoMessage, ended_at |-> 0,
     error_message |-> NoMessage, transcription_manager |-> FALSE,
     stop_requested |-> FALSE]

\* BotSession(session_id=...): the object once __init__ has returned.
BotSession(session_id) ==
    [id |-> session_id, state |-> NewSession.state,
     ended_at |-> NewSession.ended_at,
     error_message |-> NewSession.error_message,
     transcription_manager |-> NewSession.transcription_manager,
     stop_requested |-> NewSession.stop_requested]

\* No SessionManager call has returned.
(* BotSession.to_response: the BotResponse, whose fields are id, state,     *)
(* meeting_url, webhook_url, created_at and ended_at; of these the model   *)
(* has id, state and ended_at.                                             *)
to_response(sess) ==
    [id |-> sess.id, state |-> sess.state, ended_at |-> sess.ended_at]

\* HTTPException(status_code=404)
NotFound == [status_code |-> 404]

NoRegCall == [op |-> "none", id |-> UnknownId, result |-> 0, all |-> <<>>]
Returned(op, id, result) == [op |-> op, id |-> id, result |-> result, all |-> <<>>]

\* SessionManager.__init__
\* _sessions_lock held by nobody.
NoCaller == 0

\* A caller that is in no SessionManager call.
NoLockCall == [op |-> "none", session_id |-> UnknownId, session |-> 0]

\* The methods whose whole body after the arguments is one with block.
LockedMethods ==
    {"get_session", "end_session", "remove_session", "get_all_sessions",
     "get_active_session_count"}

\* What the claim keeps out of the critical sections.
SlowWork == {"webhook delivery", "provider call", "cleanup", "set_state"}

\* No caller is in a SessionManager call.
LockFree ==
    /\ _sessions_lock = NoCaller
    /\ l_pc = [t \in Creators |-> "idle"]
    /\ l_call = [t \in Creators |-> NoLockCall]
    /\ under_lock = {}

\* An end_session that does all its work inside the with block.
lock_after_lookup_held(t) == t

(* end_session: the with block holds the lookup only, so the lock is       *)
(* released before 'if not session', cleanup() and set_state().            *)
lock_after_lookup(t) == NoCaller

\* An attribute that has not been assigned.
Unset == "unset"

\* The object that super().__new__(cls) returns, the first one made.
TheInstance == 1

\* The process before the first SessionManager() call.
NoInstance ==
    /\ _instance = None
    /\ _initialized = Unset
    /\ _lock = NoCaller
    /\ g_pc = [t \in Creators |-> "idle"]
    /\ maps_made = 0

\* No scan of _last_audio_time is in progress.
NoScan == [used |-> -1, current_time |-> 0]

NewRegistry ==
    /\ _sessions = <<>>
    /\ objects = <<>>
    /\ c_pc = [c \in Creators |-> "idle"]
    /\ c_obj = [c \in Creators |-> 0]
    /\ ids_made = 0
    /\ reg_last = NoRegCall

\* The webhook URLs a session is created with (CreateBotRequest.webhook_url).
SessionUrls == {HttpsExample, HttpExample}

Init ==
    /\ debug = FALSE
    /\ webhook_retry_count = MaxRetry
    /\ SELENIUM_AVAILABLE \in BOOLEAN
    /\ webhook_url \in SessionUrls
    /\ now = 1
    /\ registered = FALSE
    /\ session = NewSession
    /\ n_status_events = 0
    /\ last_status_event = NoEvent
    /\ drove = {}
    /\ last_delivery = NoDelivery
    /\ pc = [t \in Tasks |-> "idle"]
    /\ cont = [t \in Tasks |-> "idle"]
    /\ call = [t \in Tasks |-> NoCall]
    /\ seen = [t \in Tasks |-> NoMessage]
    /\ cleaned = {}
    /\ holder = NoTask
    /\ adapter_running = FALSE
    /\ d_in = NoInput
    /\ d_out = NoResult
    /\ NoManager
    /\ NewRegistry
    /\ NoTranscripts
    /\ LockFree
    /\ NoInstance
    /\ scan = NoScan

\* ----------------------------------------------------- the event loop

(* Coroutines run on one event loop: a coroutine keeps the loop until it   *)
(* suspends.  `holder` names the coroutine that has run a step and has not *)
(* suspended yet; nobody else on the loop runs until it does.  After the   *)
(* lifespan teardown has returned the loop is gone.                        *)
CanRun(t) == holder \in {NoTask, t} /\ pc[ShutdownTask] # "done"

\* A request handler starts only while the server accepts requests.
Accepting == pc[ShutdownTask] = "idle"

(* await session.set_state(new_state, message), called by coroutine t on   *)
(* the session value `sess`, continuing at `next`: the assignments, then   *)
(* send_bot_status_event.  deliver_webhook suspends on the POST; when the  *)
(* URL fails validation it returns without suspending.  The caller moves   *)
(* its own pc to "await_status".                                           *)
set_state(t, sess, new_state, message, next) ==
    /\ session' = set_state_assign(sess, new_state, message, now)
    /\ n_status_events' = n_status_events + 1
    /\ last_status_event' =
          [data |-> send_bot_status_event(new_state, message), by |-> t]
    /\ drove' = IF new_state \in Terminal THEN drove \cup {t} ELSE drove
    /\ call' = [call EXCEPT ![t] = [state |-> new_state, message |-> message,
                                    index |-> n_status_events + 1]]
    /\ cont' = [cont EXCEPT ![t] = next]
    /\ holder' = IF _validate_webhook_url(webhook_url, debug) THEN NoTask ELSE t

\* set_state returns to its caller once deliver_webhook has finished.
SetStateReturns(t) ==
    /\ pc[t] = "await_status"
    /\ CanRun(t)
    /\ \E responses \in SessionResponseSeqs(webhook_retry_count) :
          /\ last_delivery' =
                deliver_webhook(webhook_url, debug, webhook_retry_count, responses)
          /\ session' = set_state_after_delivery(session, last_delivery')
    /\ pc' = [pc EXCEPT ![t] = cont[t]]
    /\ call' = [call EXCEPT ![t] = NoCall]
    /\ holder' = IF cont[t] = "done" THEN NoTask ELSE t
    /\ UNCHANGED <<config_vars, now, registered, event_vars, cont, seen,
                   cleaned, adapter_running, deliver_vars,
                   tm_vars, reg_vars, tr_vars, lock_vars, sm_vars, scan>>

\* ------------------------------------------------------------ create_bot

(* POST /bots.  A request without a Deepgram key or with a meeting URL     *)
(* that is not a Teams URL is refused before any session exists.           *)
CreateBot ==
    /\ pc[CreateTask] = "idle"
    /\ Accepting
    /\ CanRun(CreateTask)
    /\ \E accepted \in BOOLEAN :
          IF accepted
          THEN /\ registered' = TRUE
               /\ set_state(CreateTask, session, JOINING, NoMessage, "done")
               /\ pc' = [pc EXCEPT ![CreateTask] = "await_status",
                                   ![RunTask] = "scheduled"]
          ELSE /\ pc' = [pc EXCEPT ![CreateTask] = "done"]
               /\ UNCHANGED <<registered, session, event_vars, call, cont,
                              holder>>
    /\ UNCHANGED <<config_vars, now, last_delivery, seen, cleaned,
                   adapter_running, deliver_vars,
                   tm_vars, reg_vars, tr_vars, lock_vars, sm_vars, scan>>

\* ------------------------------------------------------- run_bot_session

\* The task starts: the Selenium test, the adapter, the start of the join.
RunStart ==
    /\ pc[RunTask] = "scheduled"
    /\ CanRun(RunTask)
    /\ IF ~SELENIUM_AVAILABLE
       THEN /\ set_state(RunTask, session, FAILED,
                         "Selenium dependencies not available", "done")
            /\ pc' = [pc EXCEPT ![RunTask] = "await_status"]
            /\ UNCHANGED adapter_running
       ELSE /\ adapter_running' = TRUE
            /\ pc' = [pc EXCEPT ![RunTask] = "joining"]
            /\ holder' = NoTask
            /\ UNCHANGED <<session, event_vars, call, cont>>
    /\ UNCHANGED <<config_vars, now, registered, last_delivery, seen, cleaned,
                   deliver_vars,
                   tm_vars, reg_vars, tr_vars, lock_vars, sm_vars, scan>>

\* adapter.join_meeting() returns: True, or False (it catches what it raises).
JoinMeetingReturns ==
    /\ pc[RunTask] = "joining"
    /\ CanRun(RunTask)
    /\ \E success \in BOOLEAN :
          IF success
          THEN set_state(RunTask, session, IN_MEETING, NoMessage, "while")
          ELSE set_state(RunTask, session, FAILED, "Failed to join meeting", "done")
    /\ pc' = [pc EXCEPT ![RunTask] = "await_status"]
    /\ UNCHANGED <<config_vars, now, registered, last_delivery, seen, cleaned,
                   adapter_running, deliver_vars,
                   tm_vars, reg_vars, tr_vars, lock_vars, sm_vars, scan>>

\* while session.state == IN_MEETING: sleep; else adapter.leave_meeting().
RunWhile ==
    /\ pc[RunTask] = "while"
    /\ CanRun(RunTask)
    /\ IF session.state = IN_MEETING
       THEN /\ pc' = [pc EXCEPT ![RunTask] = "sleep"]
            /\ UNCHANGED adapter_running
       ELSE /\ pc' = [pc EXCEPT ![RunTask] = "done"]
            /\ adapter_running' = FALSE
    /\ holder' = NoTask
    /\ UNCHANGED <<config_vars, now, registered, session, event_vars,
                   last_delivery, cont, call, seen, cleaned, deliver_vars,
                   tm_vars, reg_vars, tr_vars, lock_vars, sm_vars, scan>>

(* asyncio.sleep(1) returns; cleanup_idle_handlers() runs when the session *)
(* has a transcription manager.  A fault there is caught by the task's     *)
(* except clause, which calls set_state(FAILED, str(e)).                   *)
RunWake ==
    /\ pc[RunTask] = "sleep"
    /\ CanRun(RunTask)
    /\ \E fault \in BOOLEAN :
          IF session.transcription_manager /\ fault
          THEN /\ set_state(RunTask, session, FAILED, "<error>", "done")
               /\ pc' = [pc EXCEPT ![RunTask] = "await_status"]
          ELSE /\ pc' = [pc EXCEPT ![RunTask] = "while"]
               /\ holder' = RunTask
               /\ UNCHANGED <<session, event_vars, call, cont>>
    /\ UNCHANGED <<config_vars, now, registered, last_delivery, seen, cleaned,
                   adapter_running, deliver_vars,
                   tm_vars, reg_vars, tr_vars, lock_vars, sm_vars, scan>>

\* --------------------------------------------------------- leave_meeting

\* A leave request that goes on for a session that has failed.
already_ended_only(sess) == sess.state = ENDED

\* leave_meeting: "if session.state in (BotState.ENDED, BotState.FAILED)"
already_ended(sess) == sess.state \in Terminal

(* POST /bots/{id}/leave up to its first await.  The requests are numbered *)
(* in the order in which they arrive.                                      *)
LeaveMeeting(i) ==
    /\ pc[LeaveTask(i)] = "idle"
    /\ \A j \in 1..(i - 1) : pc[LeaveTask(j)] # "idle"
    /\ Accepting
    /\ CanRun(LeaveTask(i))
    /\ IF ~registered
       THEN /\ pc' = [pc EXCEPT ![LeaveTask(i)] = "done"]
            /\ UNCHANGED <<session, event_vars, call, cont, holder, seen>>
       ELSE /\ seen' = [seen EXCEPT ![LeaveTask(i)] = session.state]
            /\ IF already_ended(session)
               THEN /\ pc' = [pc EXCEPT ![LeaveTask(i)] = "done"]
                    /\ UNCHANGED <<session, event_vars, call, cont, holder>>
               ELSE /\ set_state(LeaveTask(i), session, LEAVING, NoMessage,
                                 "end_session")
                    /\ pc' = [pc EXCEPT ![LeaveTask(i)] = "await_status"]
    /\ UNCHANGED <<config_vars, now, registered, last_delivery, cleaned,
                   adapter_running, deliver_vars,
                   tm_vars, reg_vars, tr_vars, lock_vars, sm_vars, scan>>

\* SessionManager.end_session as a coroutine t calls it: cleanup, set_state.
end_session(t) ==
    /\ cleaned' = cleaned \cup {t}
    /\ set_state(t, cleanup(session), ENDED, "Session ended by request", "done")
    /\ pc' = [pc EXCEPT ![t] = "await_status"]

\* leave_meeting after set_state(LEAVING) has returned.
LeaveEndSession(i) ==
    /\ pc[LeaveTask(i)] = "end_session"
    /\ CanRun(LeaveTask(i))
    /\ end_session(LeaveTask(i))
    /\ UNCHANGED <<config_vars, now, registered, last_delivery, seen,
                   adapter_running, deliver_vars,
                   tm_vars, reg_vars, tr_vars, lock_vars, sm_vars, scan>>

\* ------------------------------------------------------ on_meeting_ended

(* The platform's meeting-ended message, on the websocket thread:          *)
(* _handle_meeting_ended stops the adapter and calls the callback, which   *)
(* is asyncio.create_task(on_meeting_ended(session)).  That thread has no  *)
(* running event loop, so create_task raises RuntimeError, which           *)
(* _handle_websocket_message catches and logs: nothing reaches the loop.   *)
(* seen keeps the state the session had when the message arrived.          *)
MeetingEndedSignal ==
    /\ adapter_running
    /\ pc[ShutdownTask] # "done"
    /\ adapter_running' = FALSE
    /\ seen' = [seen EXCEPT ![MeetingEndedTask] = session.state]
    /\ UNCHANGED <<config_vars, now, registered, session, event_vars,
                   last_delivery, pc, cont, call, cleaned, holder,
                   deliver_vars,
                   tm_vars, reg_vars, tr_vars, lock_vars, sm_vars, scan>>

(* The same message when on_meeting_ended(session) is started as a task of *)
(* the loop, which is what the callback is written to do.                  *)
MeetingEndedSignalOnLoop ==
    /\ pc[MeetingEndedTask] = "idle"
    /\ adapter_running
    /\ pc[ShutdownTask] # "done"
    /\ adapter_running' = FALSE
    /\ seen' = [seen EXCEPT ![MeetingEndedTask] = session.state]
    /\ pc' = [pc EXCEPT ![MeetingEndedTask] = "scheduled"]
    /\ UNCHANGED <<config_vars, now, registered, session, event_vars,
                   last_delivery, cont, call, cleaned, holder,
                   deliver_vars,
                   tm_vars, reg_vars, tr_vars, lock_vars, sm_vars, scan>>

MeetingEndedAlwaysApplies(sess) == TRUE

\* on_meeting_ended goes on only if session.state == IN_MEETING.
MeetingEndedApplies(sess) == sess.state = IN_MEETING

OnMeetingEnded ==
    /\ pc[MeetingEndedTask] = "scheduled"
    /\ CanRun(MeetingEndedTask)
    /\ IF ~MeetingEndedApplies(session)
       THEN /\ pc' = [pc EXCEPT ![MeetingEndedTask] = "done"]
            /\ holder' = NoTask
            /\ UNCHANGED <<session, event_vars, call, cont, cleaned>>
       ELSE /\ cleaned' = cleaned \cup {MeetingEndedTask}
            /\ set_state(MeetingEndedTask, cleanup(session), ENDED,
                         "Meeting ended", "done")
            /\ pc' = [pc EXCEPT ![MeetingEndedTask] = "await_status"]
    /\ UNCHANGED <<config_vars, now, registered, last_delivery, seen,
                   adapter_running, deliver_vars,
                   tm_vars, reg_vars, tr_vars, lock_vars, sm_vars, scan>>

\* -------------------------------------------------------------- lifespan

(* Shutdown: the server has stopped serving requests; the teardown ends    *)
(* every registered session.                                               *)
Lifespan ==
    /\ pc[ShutdownTask] = "idle"
    /\ CanRun(ShutdownTask)
    /\ pc[CreateTask] \in {"idle", "done"}
    /\ \A i \in 1..MaxLeave : pc[LeaveTask(i)] \in {"idle", "done"}
    /\ IF registered
       THEN end_session(ShutdownTask)
       ELSE /\ pc' = [pc EXCEPT ![ShutdownTask] = "done"]
            /\ UNCHANGED <<session, event_vars, call, cont, cleaned, holder>>
    /\ UNCHANGED <<config_vars, now, registered, last_delivery, seen,
                   adapter_running, deliver_vars,
                   tm_vars, reg_vars, tr_vars, lock_vars, sm_vars, scan>>

\* ------------------------------------------------- the platform's thread

\* add_audio_chunk: the first chunk creates the transcription manager.
AddAudioChunk ==
    /\ adapter_running
    /\ pc[ShutdownTask] # "done"
    /\ session' = [session EXCEPT !.transcription_manager = TRUE]
    /\ UNCHANGED <<config_vars, now, registered, event_vars, last_delivery,
                   pc, cont, call, seen, cleaned, holder, adapter_running,
                   deliver_vars,
                   tm_vars, reg_vars, tr_vars, lock_vars, sm_vars, scan>>

(* A transcript arrives from the recognition provider: _on_transcription   *)
(* has send_transcription_event run and drops its result.                  *)
OnTranscription ==
    /\ session.transcription_manager
    /\ pc[ShutdownTask] # "done"
    /\ \E responses \in SessionResponseSeqs(webhook_retry_count) :
          last_delivery' =
              deliver_webhook(webhook_url, debug, webhook_retry_count, responses)
    /\ UNCHANGED <<config_vars, now, registered, session, event_vars, pc, cont,
                   call, seen, cleaned, holder, adapter_running, deliver_vars,
                   tm_vars, reg_vars, tr_vars, lock_vars, sm_vars, scan>>

\* Time passes.
Tick ==
    /\ now < MaxClock
    /\ now' = now + 1
    /\ UNCHANGED <<config_vars, registered, session, event_vars,
                   last_delivery, pc, cont, call, seen, cleaned, holder,
                   adapter_running, deliver_vars,
                   tm_vars, reg_vars, tr_vars, lock_vars, sm_vars, scan>>

Next ==
    \/ CreateBot
    \/ RunStart
    \/ JoinMeetingReturns
    \/ RunWhile
    \/ RunWake
    \/ \E i \in 1..MaxLeave : LeaveMeeting(i)
    \/ \E i \in 1..MaxLeave : LeaveEndSession(i)
    \/ MeetingEndedSignal
    \/ Lifespan
    \/ AddAudioChunk
    \/ OnTranscription
    \/ \E t \in Tasks : SetStateReturns(t)
    \/ Tick

Spec == Init /\ [][Next]_vars

(* What the loop does when it is left to run.  The loop's ready queue is   *)
(* first in, first out: a coroutine that is ready again and again gets its *)
(* turn, and the join and every webhook delivery return (they are bounded  *)
(* by timeouts).  The polling loop of run_bot_session is the only          *)
(* coroutine that can run for ever, so weak fairness is enough for its     *)
(* steps and strong fairness is asked for the steps of the others, which   *)
(* it interrupts.  Requests, the platform's messages, shutdown and the     *)
(* clock are under no obligation.                                          *)
OtherCoroutineStep ==
    \/ \E i \in 1..MaxLeave : LeaveEndSession(i)
    \/ \E t \in Tasks \ {RunTask} : SetStateReturns(t)

Fairness ==
    /\ WF_vars(RunStart)
    /\ WF_vars(JoinMeetingReturns)
    /\ WF_vars(RunWhile)
    /\ WF_vars(RunWake)
    /\ WF_vars(SetStateReturns(RunTask))
    /\ SF_vars(OtherCoroutineStep)

SpecLive == Init /\ [][Next]_vars /\ Fairness

(* The lifecycle with on_meeting_ended(session) run on the loop when the   *)
(* platform's message arrives.                                             *)
NextOnLoop ==
    \/ CreateBot
    \/ RunStart
    \/ JoinMeetingReturns
    \/ RunWhile
    \/ RunWake
    \/ \E i \in 1..MaxLeave : LeaveMeeting(i)
    \/ \E i \in 1..MaxLeave : LeaveEndSession(i)
    \/ MeetingEndedSignalOnLoop
    \/ OnMeetingEnded
    \/ Lifespan
    \/ AddAudioChunk
    \/ OnTranscription
    \/ \E t \in Tasks : SetStateReturns(t)
    \/ Tick

SpecOnLoop == Init /\ [][NextOnLoop]_vars

SpecOnLoopLive ==
    Init /\ [][NextOnLoop]_vars /\ Fairness /\ SF_vars(OnMeetingEnded)

\* ------------------------------------------------ deliveries on their own

(* One delivery with drawn inputs: the URL, settings.debug, the configured *)
(* retry count, the retry_count argument (None for the default) and what   *)
(* the endpoint answers to each POST.                                      *)
InitDeliver ==
    /\ debug \in BOOLEAN
    /\ webhook_retry_count \in 0..MaxRetry
    /\ SELENIUM_AVAILABLE = TRUE
    /\ webhook_url = HttpsExample
    /\ now = 1
    /\ registered = FALSE
    /\ session = NewSession
    /\ n_status_events = 0
    /\ last_status_event = NoEvent
    /\ drove = {}
    /\ last_delivery = NoDelivery
    /\ pc = [t \in Tasks |-> "idle"]
    /\ cont = [t \in Tasks |-> "idle"]
    /\ call = [t \in Tasks |-> NoCall]
    /\ seen = [t \in Tasks |-> NoMessage]
    /\ cleaned = {}
    /\ holder = NoTask
    /\ adapter_running = FALSE
    /\ d_in \in [url : Urls,
                 retry_count : {None} \cup (0..MaxRetry),
                 responses : ResponseSeqs(MaxRetry)]
    /\ d_out = NoResult
    /\ NoManager
    /\ NewRegistry
    /\ NoTranscripts
    /\ LockFree
    /\ NoInstance
    /\ scan = NoScan

lifecycle_vars ==
    <<config_vars, now, registered, session, event_vars, last_delivery, pc,
      cont, call, seen, cleaned, holder, adapter_running>>

Delivered(event_type, retry_count) ==
    LET r == deliver_webhook(d_in.url, debug,
                             RetryCount(retry_count, webhook_retry_count),
                             d_in.responses)
    IN  [ok |-> r.ok, posts |-> r.posts, raised |-> r.raised,
         event_type |-> event_type]

\* deliver_webhook called directly, with or without retry_count.
DeliverWebhook ==
    /\ d_out = NoResult
    /\ d_out' = Delivered("test", d_in.retry_count)
    /\ UNCHANGED <<lifecycle_vars, d_in, tm_vars, reg_vars, tr_vars, lock_vars, sm_vars, scan>>

\* The wrappers pass no retry_count.
SendBotStatusEvent ==
    /\ d_out = NoResult
    /\ d_in.retry_count = None
    /\ d_out' = Delivered(send_bot_status_event(IN_MEETING, NoMessage).event_type, None)
    /\ UNCHANGED <<lifecycle_vars, d_in, tm_vars, reg_vars, tr_vars, lock_vars, sm_vars, scan>>

SendTranscriptionEvent ==
    /\ d_out = NoResult
    /\ d_in.retry_count = None
    /\ d_out' = Delivered(send_transcription_event("hello").event_type, None)
    /\ UNCHANGED <<lifecycle_vars, d_in, tm_vars, reg_vars, tr_vars, lock_vars, sm_vars, scan>>

NextDeliver ==
    \/ DeliverWebhook
    \/ SendBotStatusEvent
    \/ SendTranscriptionEvent

SpecDeliver == InitDeliver /\ [][NextDeliver]_vars

\* ================================================================ claims

\* ------------------------------------- the transcription manager on its own

(* One TranscriptionManager, constructed with a silence timeout.  The      *)
(* platform's websocket thread calls add_audio; the event loop's thread    *)
(* calls cleanup_idle_handlers and finish_all; the recognition provider    *)
(* may close a connection at any time.  add_audio is two steps of its      *)
(* thread, get_or_create_handler and then send with the time stamp; the    *)
(* loop's thread may run between them.                                     *)
InitTranscription ==
    /\ debug = FALSE
    /\ webhook_retry_count = MaxRetry
    /\ SELENIUM_AVAILABLE = TRUE
    /\ webhook_url = HttpsExample
    /\ now = 1
    /\ registered = FALSE
    /\ session = NewSession
    /\ n_status_events = 0
    /\ last_status_event = NoEvent
    /\ drove = {}
    /\ last_delivery = NoDelivery
    /\ pc = [t \in Tasks |-> "idle"]
    /\ cont = [t \in Tasks |-> "idle"]
    /\ call = [t \in Tasks |-> NoCall]
    /\ seen = [t \in Tasks |-> NoMessage]
    /\ cleaned = {}
    /\ holder = NoTask
    /\ adapter_running = FALSE
    /\ d_in = NoInput
    /\ d_out = NoResult
    /\ \E timeout \in 0..MaxSilence : NewManager(timeout)
    /\ NewRegistry
    /\ NoTranscripts
    /\ LockFree
    /\ NoInstance
    /\ scan = NoScan

\* What the manager's operations leave alone, the clock apart.
tm_frame ==
    <<config_vars, registered, session, event_vars, last_delivery, pc, cont,
      call, seen, cleaned, holder, adapter_running, deliver_vars, reg_vars,
      tr_vars, lock_vars, sm_vars, scan>>

(* add_audio, first step: get_or_create_handler(speaker_id, speaker_name). *)
(* It records a given name, returns the registered handler or makes a new  *)
(* one, starts it and registers it with the current time; when the new     *)
(* handler cannot be made or started the exception leaves add_audio.       *)
GetOrCreateHandler(speaker_id, speaker_name) ==
    /\ a_pc = "idle"
    /\ _speaker_names' =
          IF speaker_name # NoMessage
          THEN Put(_speaker_names, speaker_id, speaker_name)
          ELSE _speaker_names
    /\ IF speaker_id \in DOMAIN _handlers
       THEN /\ a_pc' = "send"
            /\ a_call' = [speaker_id |-> speaker_id,
                          handler |-> Lookup(_handlers, speaker_id)]
            /\ tm_last' = Did("get_or_create_handler")
            /\ UNCHANGED <<_handlers, _last_audio_time, handlers>>
       ELSE /\ Len(handlers) < MaxHandlers
            /\ \E started \in BOOLEAN :
                  /\ _handlers' =
                        register_started(_handlers, speaker_id,
                                         Len(handlers) + 1, started)
                  /\ IF started
                     THEN /\ handlers' =
                               Append(handlers,
                                   NewHandler(speaker_id,
                                       NameOf(_speaker_names', speaker_id)))
                          /\ _last_audio_time' =
                               Put(_last_audio_time, speaker_id, now)
                          /\ a_pc' = "send"
                          /\ a_call' = [speaker_id |-> speaker_id,
                                        handler |-> Len(handlers) + 1]
                          /\ tm_last' = Did("get_or_create_handler")
                     ELSE /\ tm_last' = Raised("get_or_create_handler")
                          /\ UNCHANGED <<_last_audio_time, handlers,
                                         a_pc, a_call>>
    /\ UNCHANGED <<tm_frame, now, silence_timeout_seconds>>

(* add_audio, second step: handler.send(audio_data), then the time stamp.  *)
(* send drops the chunk when the handler is not connected; when            *)
(* dg_connection.send raises, the exception leaves add_audio before the    *)
(* stamp.                                                                  *)
Send ==
    /\ a_pc = "send"
    /\ LET h == a_call.handler
           s == a_call.speaker_id
       IN  IF send_forwards(handlers[h])
           THEN \E sent \in BOOLEAN :
                  IF sent
                  THEN /\ handlers' =
                            [handlers EXCEPT
                               ![h].late = @ \/ h \notin Values(_handlers)]
                       /\ _last_audio_time' = Put(_last_audio_time, s, now)
                       /\ tm_last' = Did("add_audio")
                  ELSE /\ tm_last' = Raised("add_audio")
                       /\ UNCHANGED <<handlers, _last_audio_time>>
           ELSE /\ _last_audio_time' = Put(_last_audio_time, s, now)
                /\ tm_last' = Dropped
                /\ UNCHANGED handlers
    /\ a_pc' = "idle"
    /\ a_call' = NoAudioCall
    /\ UNCHANGED <<tm_frame, now, silence_timeout_seconds, _handlers,
                   _speaker_names>>

(* on_message: the provider has a transcript for the stream of handler h; *)
(* the callback is called with the handler's speaker_id and speaker_name.  *)
HandlerOnMessage(h) ==
    /\ h \in 1..Len(handlers)
    /\ handlers[h].connected
    /\ tm_last' = [op |-> "on_message", raised |-> FALSE,
                   speaker_id |-> handlers[h].speaker_id,
                   speaker_name |-> handlers[h].speaker_name]
    /\ UNCHANGED <<tm_frame, now, silence_timeout_seconds, _handlers,
                   _last_audio_time, _speaker_names, handlers, a_pc, a_call>>

\* on_close: the provider reports that a connection has closed.
OnClose(h) ==
    /\ h \in 1..Len(handlers)
    /\ handlers[h].connected
    /\ handlers' = [handlers EXCEPT ![h].connected = FALSE]
    /\ tm_last' = Did("on_close")
    /\ UNCHANGED <<tm_frame, now, silence_timeout_seconds, _handlers,
                   _last_audio_time, _speaker_names, a_pc, a_call>>

(* cleanup_idle_handlers: collects the speakers idle for longer than the   *)
(* timeout, then finishes and unregisters the handler of each and drops    *)
(* its time stamp.                                                         *)
CleanupIdleHandlers ==
    LET rm == speakers_to_remove(_last_audio_time, now, silence_timeout_seconds)
        ids == {_handlers[s] : s \in rm \cap DOMAIN _handlers}
        live == {h \in ids : handlers[h].connected}
    IN  /\ \E failing \in SUBSET live :
              handlers' = FinishEach(handlers, ids, failing)
        /\ _handlers' = Restrict(_handlers, DOMAIN _handlers \ rm)
        /\ _last_audio_time' =
              Restrict(_last_audio_time, DOMAIN _last_audio_time \ rm)
        /\ tm_last' = Did("cleanup_idle_handlers")
        /\ UNCHANGED <<tm_frame, now, silence_timeout_seconds,
                       _speaker_names, a_pc, a_call>>

\* finish_all keeping its dicts.
ClearKept(dict) == dict

\* dict.clear()
Clear(dict) == <<>>

(* finish_all: finishes every registered handler, a failing close being    *)
(* logged, then clears _handlers and _last_audio_time.                     *)
FinishAll ==
    LET ids == Values(_handlers)
        live == {h \in ids : handlers[h].connected}
    IN  /\ \E failing \in SUBSET live :
              handlers' = FinishEach(handlers, ids, failing)
        /\ _handlers' = Clear(_handlers)
        /\ _last_audio_time' = Clear(_last_audio_time)
        /\ tm_last' = Did("finish_all")
        /\ UNCHANGED <<tm_frame, now, silence_timeout_seconds,
                       _speaker_names, a_pc, a_call>>

\* time.time() advances.
TmTick ==
    /\ now < MaxClock
    /\ now' = now + 1
    /\ tm_last' = Did("time")
    /\ UNCHANGED <<tm_frame, silence_timeout_seconds, _handlers,
                   _last_audio_time, _speaker_names, handlers, a_pc, a_call>>

NextTranscription ==
    \/ \E speaker_id \in Speakers, speaker_name \in SpeakerNames :
          GetOrCreateHandler(speaker_id, speaker_name)
    \/ Send
    \/ \E h \in 1..MaxHandlers : OnClose(h)
    \/ \E h \in 1..MaxHandlers : HandlerOnMessage(h)
    \/ CleanupIdleHandlers
    \/ FinishAll
    \/ TmTick

SpecTranscription == InitTranscription /\ [][NextTranscription]_vars



\* ------------------------------------------- the session manager on its own

(* One SessionManager.  create_session is two steps of its caller, the id  *)
(* with the construction of the BotSession, then the insertion under       *)
(* _sessions_lock; calls from several threads interleave between the two.  *)
(* The other methods run under the lock in one step.  The sessions' states *)
(* are driven by set_state calls as the lifecycle makes them.              *)
InitRegistry ==
    /\ debug = FALSE
    /\ webhook_retry_count = MaxRetry
    /\ SELENIUM_AVAILABLE = TRUE
    /\ webhook_url = HttpsExample
    /\ now = 1
    /\ registered = FALSE
    /\ session = NewSession
    /\ n_status_events = 0
    /\ last_status_event = NoEvent
    /\ drove = {}
    /\ last_delivery = NoDelivery
    /\ pc = [t \in Tasks |-> "idle"]
    /\ cont = [t \in Tasks |-> "idle"]
    /\ call = [t \in Tasks |-> NoCall]
    /\ seen = [t \in Tasks |-> NoMessage]
    /\ cleaned = {}
    /\ holder = NoTask
    /\ adapter_running = FALSE
    /\ d_in = NoInput
    /\ d_out = NoResult
    /\ NoManager
    /\ NewRegistry
    /\ NoTranscripts
    /\ LockFree
    /\ NoInstance
    /\ scan = NoScan

\* What the manager's methods leave alone, the latest status event apart.
reg_frame ==
    <<config_vars, now, registered, session, n_status_events, drove,
      last_delivery, pc, cont, call, seen, cleaned, holder, adapter_running,
      deliver_vars, tm_vars, tr_vars, lock_vars, sm_vars, scan>>

\* create_session up to the lock: the id, then BotSession(...).
CreateSessionBegin(c) ==
    /\ c_pc[c] = "idle"
    /\ Len(objects) < MaxSessions
    /\ ids_made' = ids_made + 1
    /\ objects' = Append(objects, BotSession(uuid4_hex16(ids_made)))
    /\ c_obj' = [c_obj EXCEPT ![c] = Len(objects) + 1]
    /\ c_pc' = [c_pc EXCEPT ![c] = "constructed"]
    /\ UNCHANGED <<reg_frame, last_status_event, _sessions, reg_last>>

\* with self._sessions_lock: self._sessions[session_id] = session; return session
CreateSessionInsert(c) ==
    /\ c_pc[c] = "constructed"
    /\ _sessions' = Put(_sessions, objects[c_obj[c]].id, c_obj[c])
    /\ reg_last' = Returned("create_session", objects[c_obj[c]].id, c_obj[c])
    /\ c_pc' = [c_pc EXCEPT ![c] = "idle"]
    /\ c_obj' = [c_obj EXCEPT ![c] = 0]
    /\ UNCHANGED <<reg_frame, last_status_event, objects, ids_made>>

\* self._sessions.get(session_id): the session, or None (0).
Get(dict, session_id) ==
    IF session_id \in DOMAIN dict THEN dict[session_id] ELSE 0

get_session(session_id) ==
    /\ reg_last' = Returned("get_session", session_id, Get(_sessions, session_id))
    /\ UNCHANGED <<reg_frame, last_status_event, _sessions, objects, c_pc,
                   c_obj, ids_made>>

(* GET /bots/{bot_id}: get_session, then 404 or session.to_response().     *)
get_bot(bot_id) ==
    LET o == Get(_sessions, bot_id)
    IN  /\ reg_last' =
              [op |-> "get_bot", id |-> bot_id, result |-> o, all |-> <<>>,
               response |-> IF o = 0 THEN NotFound
                                     ELSE to_response(objects[o])]
        /\ UNCHANGED <<reg_frame, last_status_event, _sessions, objects, c_pc,
                       c_obj, ids_made>>

\* get_all_sessions: a copy of the dict.
get_all_sessions ==
    /\ reg_last' = [Returned("get_all_sessions", UnknownId, 0)
                        EXCEPT !.all = _sessions]
    /\ UNCHANGED <<reg_frame, last_status_event, _sessions, objects, c_pc,
                   c_obj, ids_made>>

\* remove_session: deletes the entry if there is one.
remove_session(session_id) ==
    /\ _sessions' = Restrict(_sessions, DOMAIN _sessions \ {session_id})
    /\ reg_last' = Returned("remove_session", session_id, 0)
    /\ UNCHANGED <<reg_frame, last_status_event, objects, c_pc, c_obj,
                   ids_made>>

(* end_session(session_id) up to the hand-over of its status event: None   *)
(* for an unknown id, else cleanup(), set_state(ENDED, ...) and the        *)
(* session.                                                                *)
RegEndSession(session_id) ==
    LET o == Get(_sessions, session_id)
    IN  /\ reg_last' = Returned("end_session", session_id, o)
        /\ IF o = 0
           THEN UNCHANGED <<objects, last_status_event>>
           ELSE /\ objects' =
                     [objects EXCEPT ![o] =
                         set_state_assign(cleanup(@), ENDED,
                                          "Session ended by request", now)]
                /\ last_status_event' =
                     [data |-> send_bot_status_event(ENDED,
                                   "Session ended by request"),
                      by |-> NoTask]
        /\ UNCHANGED <<reg_frame, _sessions, c_pc, c_obj, ids_made>>

\* session.set_state(state) as create_bot and run_bot_session call it.
SessionSetState(o, state) ==
    /\ o \in 1..Len(objects)
    /\ o \in Values(_sessions)
    /\ objects' = [objects EXCEPT ![o] =
                      set_state_assign(@, state,
                          IF state = FAILED THEN "Failed to join meeting"
                                            ELSE NoMessage, now)]
    /\ last_status_event' =
          [data |-> send_bot_status_event(state,
                        IF state = FAILED THEN "Failed to join meeting"
                                          ELSE NoMessage),
           by |-> NoTask]
    /\ reg_last' = Returned("set_state", objects[o].id, o)
    /\ UNCHANGED <<reg_frame, _sessions, c_pc, c_obj, ids_made>>

NextRegistry ==
    \/ \E c \in Creators : CreateSessionBegin(c)
    \/ \E c \in Creators : CreateSessionInsert(c)
    \/ \E session_id \in LookupIds : get_session(session_id)
    \/ \E bot_id \in LookupIds : get_bot(bot_id)
    \/ get_all_sessions
    \/ \E session_id \in LookupIds : remove_session(session_id)
    \/ \E session_id \in LookupIds : RegEndSession(session_id)
    \/ \E o \in 1..MaxSessions, state \in {JOINING, IN_MEETING, FAILED} :
          SessionSetState(o, state)

SpecRegistry == InitRegistry /\ [][NextRegistry]_vars


\* ------------------------------------------- a session's cleanup on its own

(* One BotSession with its transcription manager: audio arrives on the     *)
(* platform's thread (add_audio_chunk makes the manager when there is      *)
(* none), the provider closes connections, and cleanup() is called any     *)
(* number of times.                                                        *)
InitCleanup ==
    /\ debug = FALSE
    /\ webhook_retry_count = MaxRetry
    /\ SELENIUM_AVAILABLE = TRUE
    /\ webhook_url = HttpsExample
    /\ now = 1
    /\ registered = FALSE
    /\ session = NewSession
    /\ n_status_events = 0
    /\ last_status_event = NoEvent
    /\ drove = {}
    /\ last_delivery = NoDelivery
    /\ pc = [t \in Tasks |-> "idle"]
    /\ cont = [t \in Tasks |-> "idle"]
    /\ call = [t \in Tasks |-> NoCall]
    /\ seen = [t \in Tasks |-> NoMessage]
    /\ cleaned = {}
    /\ holder = NoTask
    /\ adapter_running = FALSE
    /\ d_in = NoInput
    /\ d_out = NoResult
    /\ NoManager
    /\ NewRegistry
    /\ NoTranscripts
    /\ LockFree
    /\ NoInstance
    /\ scan = NoScan

\* What these steps leave alone, the session and its manager apart.
cleanup_frame ==
    <<config_vars, now, registered, event_vars, last_delivery, pc, cont, call,
      seen, cleaned, holder, adapter_running, deliver_vars, reg_vars,
      tr_vars, lock_vars, sm_vars, scan, silence_timeout_seconds>>

(* add_audio_chunk, "if not self._transcription_manager": a new manager,   *)
(* with empty dicts.  It is the platform's thread that makes it, at the    *)
(* start of a call.                                                        *)
CreateTranscriptionManager ==
    /\ ~session.transcription_manager
    /\ a_pc = "idle"
    /\ session' = [session EXCEPT !.transcription_manager = TRUE]
    /\ _handlers' = <<>>
    /\ _last_audio_time' = <<>>
    /\ _speaker_names' = <<>>
    /\ tm_last' = Did("create_manager")
    /\ UNCHANGED <<cleanup_frame, handlers, a_pc, a_call>>

\* add_audio_chunk on a session that has a manager: its add_audio.
SessionAddAudio(speaker_id, speaker_name) ==
    /\ session.transcription_manager
    /\ GetOrCreateHandler(speaker_id, speaker_name)

(* BotSession.cleanup(): with a manager, finish_all() and the manager is   *)
(* dropped; then _stop_requested is set.                                   *)
Cleanup ==
    LET ids == Values(_handlers)
        live == {h \in ids : handlers[h].connected}
    IN  /\ IF session.transcription_manager
           THEN /\ \E failing \in SUBSET live :
                      handlers' = FinishEach(handlers, ids, failing)
                /\ _handlers' = Clear(_handlers)
                /\ _last_audio_time' = Clear(_last_audio_time)
           ELSE UNCHANGED <<handlers, _handlers, _last_audio_time>>
        /\ session' = cleanup(session)
        /\ tm_last' = Did("cleanup")
        /\ UNCHANGED <<cleanup_frame, _speaker_names, a_pc, a_call>>

NextCleanup ==
    \/ CreateTranscriptionManager
    \/ \E speaker_id \in Speakers, speaker_name \in SpeakerNames :
          SessionAddAudio(speaker_id, speaker_name)
    \/ Send
    \/ \E h \in 1..MaxHandlers : OnClose(h)
    \/ Cleanup

SpecCleanup == InitCleanup /\ [][NextCleanup]_vars


\* ------------------------------------------ transcript events on their own

(* The transcripts of the speakers' streams on their way to the endpoint.  *)
(* Each stream's provider thread calls on_message for one transcript at a  *)
(* time; _on_transcription hands the delivery to the service's loop when   *)
(* the session has one that is running, and else runs it to its end on the *)
(* provider's thread (asyncio.run).  Deliveries in progress take their     *)
(* POSTs in any order.                                                     *)
InitTranscripts ==
    /\ debug = FALSE
    /\ webhook_retry_count = MaxRetry
    /\ SELENIUM_AVAILABLE = TRUE
    /\ webhook_url = HttpsExample
    /\ now = 1
    /\ registered = FALSE
    /\ session = NewSession
    /\ n_status_events = 0
    /\ last_status_event = NoEvent
    /\ drove = {}
    /\ last_delivery = NoDelivery
    /\ pc = [t \in Tasks |-> "idle"]
    /\ cont = [t \in Tasks |-> "idle"]
    /\ call = [t \in Tasks |-> NoCall]
    /\ seen = [t \in Tasks |-> NoMessage]
    /\ cleaned = {}
    /\ holder = NoTask
    /\ adapter_running = FALSE
    /\ d_in = NoInput
    /\ d_out = NoResult
    /\ NoManager
    /\ NewRegistry
    /\ NoTranscripts
    /\ LockFree
    /\ NoInstance
    /\ scan = NoScan

\* What these steps leave alone, the service's loop (pc) apart.
transcripts_frame ==
    <<config_vars, now, registered, session, event_vars, last_delivery, cont,
      call, seen, cleaned, holder, adapter_running, deliver_vars, tm_vars,
      reg_vars>>

\* self._loop.is_running(): the service's loop runs until the teardown ends.
is_running == pc[ShutdownTask] # "done"

(* on_message for the next transcript of speaker_id's stream, up to the    *)
(* return of _on_transcription or the start of its asyncio.run.            *)
OnMessage(speaker_id) ==
    /\ speaker_id \notin in_callback
    /\ emitted[speaker_id] < MaxTranscripts
    /\ emitted' = [emitted EXCEPT ![speaker_id] = @ + 1]
    /\ IF _loop # NoLoop /\ is_running
       THEN /\ pending' =
                 pending \cup {Delivery(speaker_id, emitted[speaker_id] + 1, TRUE)}
            /\ UNCHANGED in_callback
       ELSE /\ pending' =
                 pending \cup {Delivery(speaker_id, emitted[speaker_id] + 1, FALSE)}
            /\ in_callback' = in_callback \cup {speaker_id}
    /\ UNCHANGED <<transcripts_frame, lock_vars, sm_vars, scan, pc, received>>

(* One attempt of a delivery in progress: the POST and the endpoint's      *)
(* answer.  A 2xx answer ends the delivery, any other outcome leads to the *)
(* next attempt until the attempts are used up.  A delivery that ran on    *)
(* the provider's thread lets on_message return when it ends.              *)
DeliveryAttempt(d) ==
    /\ d \in pending
    /\ d.on_loop => is_running
    /\ \E outcome \in SessionOutcomes :
          IF IsSuccess(outcome)
          THEN /\ received' = Append(received, d)
               /\ pending' = pending \ {d}
               /\ in_callback' =
                     IF d.on_loop THEN in_callback
                                  ELSE in_callback \ {d.speaker_id}
          ELSE /\ Caught(outcome)
               /\ UNCHANGED received
               /\ IF d.attempt + 1 \in AttemptRange(webhook_retry_count)
                  THEN /\ pending' =
                            (pending \ {d}) \cup {[d EXCEPT !.attempt = @ + 1]}
                       /\ UNCHANGED in_callback
                  ELSE /\ pending' = pending \ {d}
                       /\ in_callback' =
                             IF d.on_loop THEN in_callback
                                          ELSE in_callback \ {d.speaker_id}
    /\ UNCHANGED <<transcripts_frame, lock_vars, sm_vars, scan, pc, emitted>>

\* The lifespan teardown has ended: the service's loop stops.
LoopStops ==
    /\ is_running
    /\ pc' = [pc EXCEPT ![ShutdownTask] = "done"]
    /\ UNCHANGED <<transcripts_frame, tr_vars, lock_vars, sm_vars, scan>>

NextTranscripts ==
    \/ \E speaker_id \in Speakers : OnMessage(speaker_id)
    \/ \E d \in pending : DeliveryAttempt(d)
    \/ LoopStops

SpecTranscripts == InitTranscripts /\ [][NextTranscripts]_vars


\* --------------------------------------------------- the lock of the manager

(* The SessionManager's methods with _sessions_lock made visible: a caller *)
(* enters a method, acquires the lock when it is free, runs the body of    *)
(* the with block and releases.  end_session goes on after its with block  *)
(* with cleanup(), set_state() and the delivery of the status event.       *)
InitLock ==
    /\ debug = FALSE
    /\ webhook_retry_count = MaxRetry
    /\ SELENIUM_AVAILABLE = TRUE
    /\ webhook_url = HttpsExample
    /\ now = 1
    /\ registered = FALSE
    /\ session = NewSession
    /\ n_status_events = 0
    /\ last_status_event = NoEvent
    /\ drove = {}
    /\ last_delivery = NoDelivery
    /\ pc = [t \in Tasks |-> "idle"]
    /\ cont = [t \in Tasks |-> "idle"]
    /\ call = [t \in Tasks |-> NoCall]
    /\ seen = [t \in Tasks |-> NoMessage]
    /\ cleaned = {}
    /\ holder = NoTask
    /\ adapter_running = FALSE
    /\ d_in = NoInput
    /\ d_out = NoResult
    /\ NoManager
    /\ NewRegistry
    /\ NoTranscripts
    /\ LockFree
    /\ NoInstance
    /\ scan = NoScan

\* What the manager's methods leave alone, the lock and the latest event apart.
lock_frame ==
    <<config_vars, now, registered, session, n_status_events, drove,
      last_delivery, pc, cont, call, seen, cleaned, holder, adapter_running,
      deliver_vars, tm_vars, tr_vars, sm_vars, scan, c_pc, c_obj>>

\* What the steps of caller t add to under_lock.
Under(t, work) == IF _sessions_lock = t THEN under_lock \cup work ELSE under_lock

\* create_session up to its with statement: the id, then BotSession(...).
LockCreateSession(t) ==
    /\ l_pc[t] = "idle"
    /\ Len(objects) < MaxSessions
    /\ ids_made' = ids_made + 1
    /\ objects' = Append(objects, BotSession(uuid4_hex16(ids_made)))
    /\ l_call' = [l_call EXCEPT ![t] =
                     [op |-> "create_session",
                      session_id |-> uuid4_hex16(ids_made),
                      session |-> Len(objects) + 1]]
    /\ l_pc' = [l_pc EXCEPT ![t] = "with"]
    /\ under_lock' = Under(t, {"construction"})
    /\ UNCHANGED <<lock_frame, last_status_event, _sessions, reg_last,
                   _sessions_lock>>

\* A call of one of the other methods, up to its with statement.
LockCall(t, op, session_id) ==
    /\ l_pc[t] = "idle"
    /\ op \in LockedMethods
    /\ op \in {"get_all_sessions", "get_active_session_count"} =>
          session_id = UnknownId
    /\ l_call' = [l_call EXCEPT ![t] =
                     [op |-> op, session_id |-> session_id, session |-> 0]]
    /\ l_pc' = [l_pc EXCEPT ![t] = "with"]
    /\ UNCHANGED <<lock_frame, last_status_event, _sessions, objects,
                   ids_made, reg_last, _sessions_lock, under_lock>>

\* with self._sessions_lock: the caller gets the lock when nobody holds it.
LockAcquire(t) ==
    /\ l_pc[t] = "with"
    /\ _sessions_lock = NoCaller
    /\ _sessions_lock' = t
    /\ l_pc' = [l_pc EXCEPT ![t] = "locked"]
    /\ UNCHANGED <<lock_frame, last_status_event, _sessions, objects,
                   ids_made, reg_last, l_call, under_lock>>

(* The body of the with block and its end.  Every method but end_session   *)
(* returns from inside the block or right after it; end_session goes on    *)
(* when it found a session.  What the methods return is left to the steps  *)
(* of the manager on its own.                                              *)
LockBody(t) ==
    LET op == l_call[t].op
        session_id == l_call[t].session_id
        found == Get(_sessions, session_id)
    IN  /\ l_pc[t] = "locked"
        /\ _sessions' =
              CASE op = "create_session" ->
                      Put(_sessions, session_id, l_call[t].session)
                [] op = "remove_session" ->
                      Restrict(_sessions, DOMAIN _sessions \ {session_id})
                [] OTHER -> _sessions
        /\ under_lock' =
              Under(t, CASE op = "create_session" -> {"map write"}
                         [] op = "remove_session" ->
                               IF session_id \in DOMAIN _sessions
                               THEN {"map read", "map write", "log"}
                               ELSE {"map read"}
                         [] op = "get_active_session_count" ->
                               {"map read", "state read"}
                         [] OTHER -> {"map read"})
        /\ IF op = "end_session" /\ found # 0
           THEN /\ l_call' = [l_call EXCEPT ![t].session = found]
                /\ l_pc' = [l_pc EXCEPT ![t] = "cleanup"]
                /\ _sessions_lock' = lock_after_lookup(t)
           ELSE /\ l_call' = [l_call EXCEPT ![t] = NoLockCall]
                /\ l_pc' = [l_pc EXCEPT ![t] = "idle"]
                /\ _sessions_lock' = NoCaller
        /\ UNCHANGED <<lock_frame, last_status_event, objects, ids_made,
                       reg_last>>

\* end_session: await session.cleanup()
LockEndCleanup(t) ==
    /\ l_pc[t] = "cleanup"
    /\ objects' = [objects EXCEPT ![l_call[t].session] = cleanup(@)]
    /\ l_pc' = [l_pc EXCEPT ![t] = "set_state"]
    /\ under_lock' =
          Under(t, IF objects[l_call[t].session].transcription_manager
                   THEN {"cleanup", "provider call"} ELSE {"cleanup"})
    /\ UNCHANGED <<lock_frame, last_status_event, _sessions, ids_made,
                   reg_last, _sessions_lock, l_call>>

(* end_session: await session.set_state(ENDED, ...), up to the start of    *)
(* the status event's delivery.                                            *)
LockEndSetState(t) ==
    /\ l_pc[t] = "set_state"
    /\ objects' = [objects EXCEPT ![l_call[t].session] =
                      set_state_assign(@, ENDED, "Session ended by request",
                                       now)]
    /\ last_status_event' =
          [data |-> send_bot_status_event(ENDED, "Session ended by request"),
           by |-> NoTask]
    /\ l_pc' = [l_pc EXCEPT ![t] = "deliver"]
    /\ under_lock' = Under(t, {"set_state"})
    /\ UNCHANGED <<lock_frame, _sessions, ids_made, reg_last, _sessions_lock,
                   l_call>>

(* end_session: the delivery of the status event has ended, whatever its   *)
(* result; return session.                                                 *)
LockEndReturns(t) ==
    /\ l_pc[t] = "deliver"
    /\ under_lock' = Under(t, {"webhook delivery"})
    /\ l_call' = [l_call EXCEPT ![t] = NoLockCall]
    /\ l_pc' = [l_pc EXCEPT ![t] = "idle"]
    /\ _sessions_lock' = IF _sessions_lock = t THEN NoCaller ELSE _sessions_lock
    /\ UNCHANGED <<lock_frame, last_status_event, _sessions, objects,
                   ids_made, reg_last>>

NextLock ==
    \/ \E t \in Creators : LockCreateSession(t)
    \/ \E t \in Creators, op \in LockedMethods, session_id \in LookupIds :
          LockCall(t, op, session_id)
    \/ \E t \in Creators : LockAcquire(t)
    \/ \E t \in Creators : LockBody(t)
    \/ \E t \in Creators : LockEndCleanup(t)
    \/ \E t \in Creators : LockEndSetState(t)
    \/ \E t \in Creators : LockEndReturns(t)
    \/ \E o \in 1..MaxSessions : SessionSetState(o, IN_MEETING)

SpecLock == InitLock /\ [][NextLock]_vars


\* ------------------------------------------------ the manager's construction

(* SessionManager() as threads call it (get_instance is cls()): __new__    *)
(* with its double-checked _lock, then __init__, which Python calls on     *)
(* what __new__ returned, then a create_session on the instance.  A thread *)
(* may be pre-empted between any two statements.                           *)
InitSingleton ==
    /\ debug = FALSE
    /\ webhook_retry_count = MaxRetry
    /\ SELENIUM_AVAILABLE = TRUE
    /\ webhook_url = HttpsExample
    /\ now = 1
    /\ registered = FALSE
    /\ session = NewSession
    /\ n_status_events = 0
    /\ last_status_event = NoEvent
    /\ drove = {}
    /\ last_delivery = NoDelivery
    /\ pc = [t \in Tasks |-> "idle"]
    /\ cont = [t \in Tasks |-> "idle"]
    /\ call = [t \in Tasks |-> NoCall]
    /\ seen = [t \in Tasks |-> NoMessage]
    /\ cleaned = {}
    /\ holder = NoTask
    /\ adapter_running = FALSE
    /\ d_in = NoInput
    /\ d_out = NoResult
    /\ NoManager
    /\ NewRegistry
    /\ NoTranscripts
    /\ LockFree
    /\ NoInstance
    /\ scan = NoScan

\* What the construction leaves alone.
singleton_frame ==
    <<config_vars, now, registered, session, event_vars, last_delivery, pc,
      cont, call, seen, cleaned, holder, adapter_running, deliver_vars,
      tm_vars, tr_vars, lock_vars, scan, c_pc, c_obj, reg_last>>

\* __new__: the first "if cls._instance is None".
NewCheck(t) ==
    /\ g_pc[t] = "idle"
    /\ g_pc' = [g_pc EXCEPT ![t] =
                   IF _instance = None THEN "with" ELSE "init"]
    /\ UNCHANGED <<singleton_frame, _sessions, objects, ids_made, _instance,
                   _initialized, _lock, maps_made>>

\* __new__: with cls._lock
NewAcquire(t) ==
    /\ g_pc[t] = "with"
    /\ _lock = NoCaller
    /\ _lock' = t
    /\ g_pc' = [g_pc EXCEPT ![t] = "locked"]
    /\ UNCHANGED <<singleton_frame, _sessions, objects, ids_made, _instance,
                   _initialized, maps_made>>

(* __new__ under the lock: the second test, and when it holds              *)
(* cls._instance = super().__new__(cls).                                   *)
NewInstance(t) ==
    /\ g_pc[t] = "locked"
    /\ IF _instance = None
       THEN /\ _instance' = TheInstance
            /\ g_pc' = [g_pc EXCEPT ![t] = "flag"]
            /\ UNCHANGED _lock
       ELSE /\ _lock' = NoCaller
            /\ g_pc' = [g_pc EXCEPT ![t] = "init"]
            /\ UNCHANGED _instance
    /\ UNCHANGED <<singleton_frame, _sessions, objects, ids_made,
                   _initialized, maps_made>>

\* __new__ under the lock: cls._instance._initialized = False; the lock is left.
NewFlag(t) ==
    /\ g_pc[t] = "flag"
    /\ _initialized' = "False"
    /\ _lock' = NoCaller
    /\ g_pc' = [g_pc EXCEPT ![t] = "init"]
    /\ UNCHANGED <<singleton_frame, _sessions, objects, ids_made, _instance,
                   maps_made>>

(* __init__: "if self._initialized: return".  Reading the attribute before *)
(* it was assigned raises AttributeError.                                  *)
InitCheck(t) ==
    /\ g_pc[t] = "init"
    /\ g_pc' = [g_pc EXCEPT ![t] =
                   CASE _initialized = Unset -> "raised"
                     [] _initialized = "True" -> "ready"
                     [] OTHER -> "sessions"]
    /\ UNCHANGED <<singleton_frame, _sessions, objects, ids_made, _instance,
                   _initialized, _lock, maps_made>>

\* __init__: self._sessions = {}; self._sessions_lock = threading.Lock()
InitSessions(t) ==
    /\ g_pc[t] = "sessions"
    /\ _sessions' = <<>>
    /\ maps_made' = maps_made + 1
    /\ g_pc' = [g_pc EXCEPT ![t] = "initialized"]
    /\ UNCHANGED <<singleton_frame, objects, ids_made, _instance,
                   _initialized, _lock>>

\* __init__: self._initialized = True
InitFlag(t) ==
    /\ g_pc[t] = "initialized"
    /\ _initialized' = "True"
    /\ g_pc' = [g_pc EXCEPT ![t] = "ready"]
    /\ UNCHANGED <<singleton_frame, _sessions, objects, ids_made, _instance,
                   _lock, maps_made>>

(* The thread uses the manager it got: create_session.  Its next call of   *)
(* get_instance constructs again.                                          *)
UseInstance(t) ==
    /\ g_pc[t] = "ready"
    /\ Len(objects) < MaxSessions
    /\ ids_made' = ids_made + 1
    /\ objects' = Append(objects, BotSession(uuid4_hex16(ids_made)))
    /\ _sessions' = Put(_sessions, uuid4_hex16(ids_made), Len(objects) + 1)
    /\ g_pc' = [g_pc EXCEPT ![t] = "idle"]
    /\ UNCHANGED <<singleton_frame, _instance, _initialized, _lock,
                   maps_made>>

\* The AttributeError has gone to the caller; the thread calls again later.
Reraised(t) ==
    /\ g_pc[t] = "raised"
    /\ g_pc' = [g_pc EXCEPT ![t] = "idle"]
    /\ UNCHANGED <<singleton_frame, _sessions, objects, ids_made, _instance,
                   _initialized, _lock, maps_made>>

NextSingleton ==
    \/ \E t \in Creators : NewCheck(t)
    \/ \E t \in Creators : NewAcquire(t)
    \/ \E t \in Creators : NewInstance(t)
    \/ \E t \in Creators : NewFlag(t)
    \/ \E t \in Creators : InitCheck(t)
    \/ \E t \in Creators : InitSessions(t)
    \/ \E t \in Creators : InitFlag(t)
    \/ \E t \in Creators : UseInstance(t)
    \/ \E t \in Creators : Reraised(t)

SpecSingleton == InitSingleton /\ [][NextSingleton]_vars


\* ------------------------------------------------ the sweep, step by step

(* cleanup_idle_handlers on the loop's thread, statement by statement,     *)
(* against add_audio on the platform's thread.  The scan is a for loop     *)
(* over self._last_audio_time.items(): the iterator notes the dict's size  *)
(* when it is made and raises RuntimeError at its next step when the size  *)
(* has changed.  finish_all runs on the loop's thread too, so never inside *)
(* a sweep.                                                                *)
InitSweep == InitTranscription

\* current_time = time.time(); the for statement makes the iterator.
SweepBegin ==
    /\ scan = NoScan
    /\ scan' = [used |-> Cardinality(DOMAIN _last_audio_time),
                current_time |-> now]
    /\ tm_last' = Did("cleanup_idle_handlers: scan")
    /\ UNCHANGED <<config_vars, now, registered, session, event_vars,
                   last_delivery, pc, cont, call, seen, cleaned, holder,
                   adapter_running, deliver_vars, reg_vars, tr_vars,
                   lock_vars, sm_vars, silence_timeout_seconds, _handlers,
                   _last_audio_time, _speaker_names, handlers, a_pc, a_call>>

(* The rest of the sweep: the iteration, which raises when the dict has    *)
(* got an entry since the iterator was made, and else the removal of the   *)
(* speakers found idle.                                                    *)
SweepEnd ==
    /\ scan # NoScan
    /\ scan' = NoScan
    /\ IF Cardinality(DOMAIN _last_audio_time) # scan.used
       THEN /\ tm_last' = Raised("cleanup_idle_handlers")
            /\ UNCHANGED <<_handlers, _last_audio_time, handlers>>
       ELSE LET rm == speakers_to_remove(_last_audio_time, scan.current_time,
                                         silence_timeout_seconds)
                ids == {_handlers[s] : s \in rm \cap DOMAIN _handlers}
                live == {h \in ids : handlers[h].connected}
            IN  /\ \E failing \in SUBSET live :
                      handlers' = FinishEach(handlers, ids, failing)
                /\ _handlers' = Restrict(_handlers, DOMAIN _handlers \ rm)
                /\ _last_audio_time' =
                      Restrict(_last_audio_time, DOMAIN _last_audio_time \ rm)
                /\ tm_last' = Did("cleanup_idle_handlers")
    /\ UNCHANGED <<config_vars, now, registered, session, event_vars,
                   last_delivery, pc, cont, call, seen, cleaned, holder,
                   adapter_running, deliver_vars, reg_vars, tr_vars,
                   lock_vars, sm_vars, silence_timeout_seconds,
                   _speaker_names, a_pc, a_call>>

\* finish_all, between two sweeps.
SweepFinishAll ==
    /\ scan = NoScan
    /\ FinishAll

NextSweep ==
    \/ \E speaker_id \in Speakers, speaker_name \in SpeakerNames :
          GetOrCreateHandler(speaker_id, speaker_name)
    \/ Send
    \/ \E h \in 1..MaxHandlers : OnClose(h)
    \/ SweepBegin
    \/ SweepEnd
    \/ SweepFinishAll
    \/ TmTick

SpecSweep == InitSweep /\ [][NextSweep]_vars


NonTerminal == BotState \ Terminal

\* The transition table of the data model.
LegalTransitions ==
    { <<PENDING, JOINING>>, <<JOINING, IN_MEETING>>, <<JOINING, FAILED>>,
      <<IN_MEETING, LEAVING>>, <<IN_MEETING, FAILED>>, <<LEAVING, ENDED>> }
        \cup { <<s, FAILED>> : s \in NonTerminal }

(* C1: set_state respects the transition table: the session's state only   *)
(* ever steps along a pair of the table, and a call whose pair is not in   *)
(* the table leaves the state as it was.                                   *)
C1_TransitionTable ==
    [][session'.state # session.state
          => <<session.state, session'.state>> \in LegalTransitions]_vars

(* C2: in every reachable state ended_at is set if and only if the state   *)
(* is terminal.                                                            *)
C2_EndedAtIffTerminal ==
    (session.ended_at # 0) <=> (session.state \in Terminal)

(* C3: ended_at is written exactly once: once it is set, no later step     *)
(* (a second set_state into a terminal state included) changes it.         *)
C3_EndedAtWrittenOnce ==
    [][session.ended_at # 0 => session'.ended_at = session.ended_at]_vars

(* C4: terminal states are absorbing: once the state is ENDED or FAILED it *)
(* is never again PENDING, JOINING, IN_MEETING or LEAVING.                 *)
C4_TerminalAbsorbing ==
    [][session.state \in Terminal => session'.state \in Terminal]_vars

C6_ConcurrentTerminalCalls ==
    [][ \A t, u \in Tasks :
          ( /\ t # u
            /\ call[t].state \in Terminal
            /\ call[u] = NoCall
            /\ call'[u].state \in Terminal )
          => /\ session'.ended_at = session.ended_at
             /\ n_status_events' = n_status_events + 1
             /\ last_status_event'.data.status \in Terminal ]_vars

(* C7: a call set_state(s, message) with no other transition while it is   *)
(* in flight leaves session.state = s when it returns, and dispatches      *)
(* exactly one bot_status event, whose status is s and whose message is    *)
(* the one passed.                                                         *)
C7_SetStateAppliesAndNotifies ==
    /\ [][ \A t \in Tasks :
             (call[t] = NoCall /\ call'[t] # NoCall)
             => /\ n_status_events' = n_status_events + 1
                /\ last_status_event'.by = t
                /\ last_status_event'.data.event_type = "bot_status"
                /\ last_status_event'.data.status = call'[t].state
                /\ last_status_event'.data.message = call'[t].message
                /\ session'.state = call'[t].state ]_vars
    /\ [][ \A t \in Tasks :
             ( /\ call[t] # NoCall
               /\ call'[t] = NoCall
               /\ n_status_events = call[t].index )
             => /\ session'.state = call[t].state
                /\ n_status_events' = n_status_events ]_vars

\* C7's case: set_state(ENDED, ...) called on a FAILED session has returned.
C7_Witness ==
    /\ \E i \in 1..MaxLeave :
          /\ pc[LeaveTask(i)] = "done"
          /\ last_status_event.by = LeaveTask(i)
    /\ session.error_message = "Failed to join meeting"
    /\ last_status_event.data.status = ENDED
    /\ last_status_event.data.message = "Session ended by request"
    /\ session.state = ENDED

(* C8: the outcome of a delivery never reaches the session: in the step in *)
(* which a status delivery or a transcription delivery finishes, whatever  *)
(* its result, state, ended_at and error_message stay what set_state       *)
(* wrote.                                                                  *)
C8_DeliveryNeverChangesSession ==
    [][ ( \/ \E t \in Tasks : call[t] # NoCall /\ call'[t] = NoCall
          \/ last_delivery' # last_delivery )
        => /\ session'.state = session.state
           /\ session'.ended_at = session.ended_at
           /\ session'.error_message = session.error_message ]_vars

\* C8's case: every attempt of the IN_MEETING status delivery failed.
C8_Witness ==
    /\ pc[RunTask] = "while"
    /\ last_status_event.data.status = IN_MEETING
    /\ last_delivery =
          [ok |-> FALSE, posts |-> webhook_retry_count + 1, raised |-> FALSE]
    /\ session.state = IN_MEETING
    /\ session.ended_at = 0
    /\ session.error_message = NoMessage

Is2xx(outcome) == outcome.kind = "response" /\ outcome.status \in 200..299

\* The retry count in force for the delivery drawn.
d_retry ==
    IF d_in.retry_count = None THEN webhook_retry_count ELSE d_in.retry_count

C10_InvalidUrlNoPost ==
    (d_out # NoResult /\ ~_validate_webhook_url(d_in.url, debug)) =>
        (~d_out.ok /\ d_out.posts = 0)

\* C10's case: a transcription event for a loopback URL whose endpoint would answer 200.
C10_Witness ==
    /\ d_in.url = HttpsLoopback
    /\ Is2xx(d_in.responses[1])
    /\ d_out = [ok |-> FALSE, posts |-> 0, raised |-> FALSE,
                event_type |-> "transcription"]

C12_Accepted(url, dbg) ==
    /\ url.scheme = "https" \/ (dbg /\ url.scheme = "http")
    /\ url.host # <<>>
    /\ Hostname(url) \notin blocked_hosts
    /\ ~StartsWithLabels(Hostname(url), <<"10">>)
    /\ ~StartsWithLabels(Hostname(url), <<"192", "168">>)

(* C12: a delivery gets past validation (and so makes a POST) exactly when *)
(* the scheme is https, or http under debug, the URL has a hostname, the   *)
(* lower-cased hostname is not one of the blocked hosts and does not start *)
(* with "10." or "192.168.".  Violated: https://:80/x has no hostname and  *)
(* is accepted.                                                            *)
C12_ValidatesExactly ==
    d_out # NoResult =>
        ((d_out.posts > 0) = C12_Accepted(d_in.url, debug))

\* The handlers that were registered once and are not any more.
Removed == {h \in 1..Len(handlers) : h \notin Values(_handlers)}

(* C13: in a cleanup_idle_handlers step at time now, every speaker whose   *)
(* now - last activity exceeds silence_timeout_seconds leaves _handlers    *)
(* and _last_audio_time and its handler has been finished (finish() was    *)
(* called, and dg_connection.finish() if it was connected); every speaker  *)
(* idle for at most the timeout keeps its handler, untouched, and its time *)
(* stamp.                                                                  *)
C13_IdleEviction ==
    [][ tm_last'.op = "cleanup_idle_handlers" =>
        \A s \in DOMAIN _last_audio_time :
            IF now - _last_audio_time[s] > silence_timeout_seconds
            THEN /\ s \notin DOMAIN _handlers'
                 /\ s \notin DOMAIN _last_audio_time'
                 /\ s \in DOMAIN _handlers =>
                       LET h == _handlers[s]
                       IN  /\ handlers'[h].finish_calls =
                                handlers[h].finish_calls + 1
                           /\ handlers[h].connected =>
                                handlers'[h].dg_finishes =
                                    handlers[h].dg_finishes + 1
            ELSE /\ s \in DOMAIN _last_audio_time'
                 /\ _last_audio_time'[s] = _last_audio_time[s]
                 /\ s \in DOMAIN _handlers =>
                       /\ s \in DOMAIN _handlers'
                       /\ _handlers'[s] = _handlers[s]
                       /\ handlers'[_handlers[s]] = handlers[_handlers[s]] ]_vars

(* C13's case: with timeout 0, a sweep at time 2 has evicted alice, silent *)
(* since time 1, and kept bob, who sent audio at time 2.                   *)
C13_Witness ==
    /\ tm_last.op = "cleanup_idle_handlers"
    /\ silence_timeout_seconds = 0
    /\ now = 2
    /\ Len(handlers) = 2
    /\ handlers[1].speaker_id = "alice"
    /\ handlers[1].finish_calls = 1
    /\ handlers[1].dg_finishes = 1
    /\ DOMAIN _handlers = {"bob"}
    /\ DOMAIN _last_audio_time = {"bob"}
    /\ _last_audio_time["bob"] = 2
    /\ handlers[2].finish_calls = 0

(* C14: once a handler has left _handlers (evicted by the sweep or         *)
(* discarded by finish_all) it is never registered or returned again, the  *)
(* next get_or_create_handler for its speaker registers a new handler, and *)
(* no audio reaches its connection any more.                               *)
C14_FreshHandleAfterEviction ==
    /\ [](\A h \in 1..Len(handlers) : ~handlers[h].late)
    /\ [][ /\ \A h \in Removed : h \notin Values(_handlers')
           /\ (tm_last'.op = "get_or_create_handler" /\ ~tm_last'.raised) =>
                 /\ a_call'.handler \notin Removed
                 /\ a_call'.handler = _handlers'[a_call'.speaker_id]
                 /\ a_call'.speaker_id \notin DOMAIN _handlers =>
                       /\ a_call'.handler = Len(handlers) + 1
                       /\ handlers'[a_call'.handler].finish_calls = 0 ]_vars

(* C15: _handlers is injective at every moment, every registered handler   *)
(* was made for the speaker id it is registered under, and the handler an  *)
(* add_audio call sends to is the one made for its own speaker id and is   *)
(* registered under no other id.                                           *)
C15_OneHandlePerSpeaker ==
    /\ \A s1, s2 \in DOMAIN _handlers :
          _handlers[s1] = _handlers[s2] => s1 = s2
    /\ \A s \in DOMAIN _handlers : handlers[_handlers[s]].speaker_id = s
    /\ a_pc = "send" =>
          /\ handlers[a_call.handler].speaker_id = a_call.speaker_id
          /\ \A s \in DOMAIN _handlers :
                _handlers[s] = a_call.handler => s = a_call.speaker_id

\* C15's case: audio for bob is about to be sent while alice is registered too.
C15_Witness ==
    /\ a_pc = "send"
    /\ a_call.speaker_id = "bob"
    /\ DOMAIN _handlers = {"alice", "bob"}
    /\ _handlers["alice"] # _handlers["bob"]
    /\ a_call.handler = _handlers["bob"]

\* A finish_all step: what it does to the handlers and to the two dicts.
C16_FinishAllStep ==
    tm_last'.op = "finish_all" =>
        /\ ~tm_last'.raised
        /\ _handlers' = <<>>
        /\ _last_audio_time' = <<>>
        /\ \A h \in Values(_handlers) :
              /\ handlers'[h].finish_calls = handlers[h].finish_calls + 1
              /\ handlers[h].connected =>
                    handlers'[h].dg_finishes = handlers[h].dg_finishes + 1
        /\ tm_last.op = "finish_all" =>
              /\ handlers' = handlers
              /\ _speaker_names' = _speaker_names

(* C16, amended: finish_all never raises, finishes every registered        *)
(* handler even when a close fails, leaves _handlers and _last_audio_time  *)
(* empty (the recorded speaker names are kept), and a second call in a row *)
(* finishes nothing and changes nothing.                                   *)
C16_FinishAllIdempotent == [][C16_FinishAllStep]_vars

(* C16 as stated: finish_all leaves all internal maps of the manager       *)
(* empty, _speaker_names included.                                         *)
C16_AllMapsEmpty ==
    [][ C16_FinishAllStep /\
        (tm_last'.op = "finish_all" => _speaker_names' = <<>>) ]_vars

(* C16's case: after a finish_all that finished two handlers, one of them  *)
(* through a failing close, with a speaker name on record.                 *)
C16_Witness ==
    /\ tm_last.op = "finish_all"
    /\ _handlers = <<>>
    /\ _last_audio_time = <<>>
    /\ _speaker_names # <<>>
    /\ Len(handlers) = 2
    /\ \A h \in 1..2 : handlers[h].finish_calls = 1 /\ handlers[h].dg_finishes = 1
    /\ handlers[1].connected
    /\ ~handlers[2].connected

(* C17: every handler that has left _handlers has had dg_connection        *)
(* finished exactly once, and no handler's connection is finished twice.   *)
C17_ClosedExactlyOnce ==
    /\ \A h \in 1..Len(handlers) : handlers[h].dg_finishes <= 1
    /\ \A h \in Removed : handlers[h].dg_finishes = 1

C19_VisibleOnlyConstructed ==
    [][ /\ \A id \in DOMAIN _sessions' :
              /\ objects'[_sessions'[id]].id = id
              /\ objects'[_sessions'[id]].state \in BotState
        /\ \A id \in DOMAIN _sessions' \ DOMAIN _sessions :
              /\ reg_last' = Returned("create_session", id, _sessions'[id])
              /\ objects'[_sessions'[id]].state = PENDING
              /\ objects'[_sessions'[id]].ended_at = 0
              /\ objects'[_sessions'[id]].error_message = NoMessage
        /\ \A id \in DOMAIN _sessions :
              IF id \in DOMAIN _sessions'
              THEN _sessions'[id] = _sessions[id]
              ELSE reg_last' = Returned("remove_session", id, 0)
        /\ reg_last'.op = "get_session" =>
              IF reg_last'.id \in DOMAIN _sessions'
              THEN reg_last'.result = _sessions'[reg_last'.id]
              ELSE reg_last'.result = 0
        /\ reg_last'.op = "get_all_sessions" => reg_last'.all = _sessions' ]_vars

(* get_session returns a session that was created, driven to another state *)
(* and kept, next to an id that was removed.                               *)
C19_Witness ==
    /\ reg_last.op = "get_session"
    /\ reg_last.result # 0
    /\ objects[reg_last.result].state = IN_MEETING
    /\ Len(objects) = 2
    /\ Cardinality(DOMAIN _sessions) = 1

(* C20: when end_session returns for a registered session, the session has *)
(* been cleaned up, is in state ENDED with ended_at set, and is still      *)
(* registered.                                                             *)
C20_EndSessionLeavesEnded ==
    [][ \A t \in Tasks :
          ( /\ pc[t] = "await_status"
            /\ call[t].message = "Session ended by request"
            /\ pc'[t] # "await_status" )
          => /\ t \in cleaned'
             /\ session'.state = ENDED
             /\ session'.ended_at # 0
             /\ registered' ]_vars

(* C21: once the join has failed and run_bot_session has recorded it, the  *)
(* session is FAILED with that error message and ended_at set, and stays   *)
(* so: FAILED is its final state and it is never IN_MEETING afterwards.    *)
C21_JoinFailureIsFinal ==
    [][ session.error_message = "Failed to join meeting"
          => /\ session.state = FAILED
             /\ session.ended_at # 0
             /\ session'.state = FAILED
             /\ session'.error_message = "Failed to join meeting" ]_vars

(* C22: a fault inside run_bot_session is caught and becomes               *)
(* set_state(FAILED, str(e)): when that call returns, the session is       *)
(* FAILED with the fault's message and the task has ended.                 *)
C22_FaultBecomesFailed ==
    [][ ( /\ pc[RunTask] = "await_status"
          /\ call[RunTask].message = "<error>"
          /\ pc'[RunTask] # "await_status" )
        => /\ pc'[RunTask] = "done"
           /\ session'.state = FAILED
           /\ session'.error_message = "<error>" ]_vars

(* C23: the bot ends when the meeting ends: once the platform has          *)
(* signalled meeting-ended on a session that is IN_MEETING,                *)
(* on_meeting_ended eventually drives the session to ENDED with "Meeting   *)
(* ended", unless a leave request, the shutdown or a fault of the driving  *)
(* loop gets in first.                                                     *)
C23_EndsWhenMeetingEnds ==
    (seen[MeetingEndedTask] = IN_MEETING)
        ~> ( \/ MeetingEndedTask \in drove
             \/ RunTask \in drove
             \/ \E i \in 1..MaxLeave : pc[LeaveTask(i)] # "idle"
             \/ pc[ShutdownTask] # "idle" )

(* C24: cleanup() is idempotent.  A call on a session that has a manager   *)
(* calls finish() once on every registered handler, closing the            *)
(* connection of each that is connected, whether or not a close fails,     *)
(* drops the manager and sets stop-requested; a call on a session whose    *)
(* manager is gone and that is stop-requested changes nothing; no call     *)
(* raises.                                                                 *)
C24_CleanupIdempotent ==
    [][ tm_last'.op = "cleanup" =>
          /\ ~tm_last'.raised
          /\ ~session'.transcription_manager
          /\ session'.stop_requested
          /\ _handlers' = <<>>
          /\ IF session.transcription_manager
             THEN \A h \in 1..Len(handlers) :
                    IF h \in Values(_handlers)
                    THEN /\ handlers'[h].finish_calls =
                                handlers[h].finish_calls + 1
                         /\ handlers'[h].dg_finishes =
                                handlers[h].dg_finishes +
                                    (IF handlers[h].connected THEN 1 ELSE 0)
                    ELSE handlers'[h] = handlers[h]
             ELSE /\ handlers' = handlers
                  /\ _handlers' = _handlers
                  /\ _last_audio_time' = _last_audio_time
                  /\ session.stop_requested => session' = session ]_vars

(* cleanup has closed two streams, the close of the first one failing; the *)
(* session is as every further cleanup leaves it.                          *)
C24_Witness ==
    /\ tm_last.op = "cleanup"
    /\ ~session.transcription_manager
    /\ session.stop_requested
    /\ Len(handlers) = 2
    /\ \A h \in 1..2 : handlers[h].finish_calls = 1 /\ handlers[h].dg_finishes = 1
    /\ handlers[1].connected
    /\ ~handlers[2].connected

(* C25: once cleanup() has marked the session stop-requested, the driving  *)
(* loop of run_bot_session eventually exits and the task ends, in every    *)
(* interleaving, unless the service shuts down.                            *)
C25_StopRequestedEndsLoop ==
    session.stop_requested
        ~> (pc[RunTask] = "done" \/ pc[ShutdownTask] # "idle")

(* C26: a stream that cannot be opened is not fatal: when                  *)
(* get_or_create_handler raises, no handler is made or registered for the  *)
(* speaker, no second attempt is made, add_audio ends there with the chunk *)
(* sent nowhere, the session is as it was, and the other speakers'         *)
(* handlers stay registered and as they were.                              *)
C26_OpenFailureIsDegraded ==
    [][ tm_last' = Raised("get_or_create_handler") =>
          /\ _handlers' = _handlers
          /\ handlers' = handlers
          /\ _last_audio_time' = _last_audio_time
          /\ a_pc' = "idle"
          /\ a_call' = NoAudioCall
          /\ session' = session ]_vars

\* The open failed for one speaker while the other one has a live stream.
C26_Witness ==
    /\ tm_last = Raised("get_or_create_handler")
    /\ Cardinality(DOMAIN _handlers) = 1
    /\ Len(handlers) = 1
    /\ handlers[1].connected

(* C27: while a speaker's registered handler is disconnected, no new       *)
(* handler is made for that speaker and the registered one is not          *)
(* replaced: a new handler is made only for a speaker that has none        *)
(* registered, that is after the sweep or finish_all has removed the old   *)
(* one and another chunk has come.  Until then get_or_create_handler       *)
(* returns the disconnected handler, and a chunk sent to a disconnected    *)
(* handler is dropped: nothing reaches the connection and nothing of the   *)
(* chunk is kept.                                                          *)
C27_NoReopenBeforeEviction ==
    [][ /\ \A s \in DOMAIN _handlers \cap DOMAIN _handlers' :
              _handlers'[s] = _handlers[s]
        /\ Len(handlers') > Len(handlers) =>
              /\ Len(handlers') = Len(handlers) + 1
              /\ handlers'[Len(handlers')].speaker_id \notin DOMAIN _handlers
        /\ (tm_last' = Did("get_or_create_handler")
              /\ a_call'.speaker_id \in DOMAIN _handlers) =>
              a_call'.handler = _handlers[a_call'.speaker_id]
        /\ (a_pc = "send" /\ a_pc' = "idle") =>
              IF handlers[a_call.handler].connected
              THEN tm_last' \in {Did("add_audio"), Raised("add_audio")}
              ELSE /\ tm_last' = Dropped
                   /\ handlers' = handlers
                   /\ a_call' = NoAudioCall ]_vars

(* The provider closed alice's only stream; her next chunk went to the     *)
(* same handler and was dropped.                                           *)
C27_Witness ==
    /\ tm_last = Dropped
    /\ Len(handlers) = 1
    /\ DOMAIN _handlers = {"alice"}
    /\ ~handlers[1].connected
    /\ handlers[1].finish_calls = 0

C29_CallbackDoesNotBlock ==
    in_callback # {} => ~is_running

C31_ShutdownEndsSessions ==
    [][ /\ (pc'[ShutdownTask] = "done" /\ ShutdownTask \in cleaned') =>
              session'.state \in Terminal
        /\ (pc[ShutdownTask] = "idle" /\ pc'[ShutdownTask] # "idle"
              /\ registered /\ session.state \in Terminal) =>
              /\ ShutdownTask \in cleaned'
              /\ session'.state = session.state
              /\ session'.ended_at = session.ended_at
              /\ session'.error_message = session.error_message ]_vars

(* C32: a failure is observable through the status query: the response of *)
(* GET /bots/{id} for a session that is FAILED with message m reports the  *)
(* state FAILED and carries m.                                             *)
C32_FailureObservable ==
    [][ (reg_last'.op = "get_bot" /\ reg_last'.result # 0
            /\ objects[reg_last'.result].state = FAILED) =>
          /\ reg_last'.response.state = FAILED
          /\ "error_message" \in DOMAIN reg_last'.response
          /\ reg_last'.response.error_message =
                objects[reg_last'.result].error_message ]_vars

(* C33: a leave request for a session that is ENDED or FAILED when it      *)
(* arrives is a no-op: the request returns at once, the session (state,    *)
(* ended_at, error_message, transcription manager) is as it was, no status *)
(* event is handed to the dispatcher and cleanup() is not run.             *)
C33_LeaveOnTerminalIsNoOp ==
    [][ \A i \in 1..MaxLeave :
          (pc[LeaveTask(i)] = "idle" /\ pc'[LeaveTask(i)] # "idle"
              /\ registered /\ session.state \in Terminal) =>
                /\ pc'[LeaveTask(i)] = "done"
                /\ seen'[LeaveTask(i)] = session.state
                /\ session' = session
                /\ n_status_events' = n_status_events
                /\ last_status_event' = last_status_event
                /\ cleaned' = cleaned ]_vars

(* A leave request has returned for a session it found FAILED, with the    *)
(* transcription manager of an earlier chunk still there.                  *)
C33_Witness ==
    /\ pc[LeaveTask(1)] = "done"
    /\ seen[LeaveTask(1)] = FAILED
    /\ session.state = FAILED
    /\ session.transcription_manager
    /\ LeaveTask(1) \notin cleaned

(* C34: the manager is a thread-safe singleton: at most one instance is    *)
(* ever made, its session map is assigned once, no construction fails, and *)
(* no step of a construction takes a registered session out of the map.    *)
C34_ThreadSafeSingleton ==
    [][ /\ (_instance # None => _instance' = _instance)
        /\ maps_made' <= 1
        /\ \A t \in Creators : g_pc'[t] # "raised"
        /\ DOMAIN _sessions \subseteq DOMAIN _sessions' ]_vars

(* C35: once cleanup() has run for the session, the session has no         *)
(* transcription manager, and so no open recognition stream, in any later  *)
(* state.                                                                  *)
C35_NoManagerAfterCleanup ==
    cleaned # {} => ~session.transcription_manager

(* C36: a session that the polling loop's error path has moved to FAILED   *)
(* eventually has its recognition streams closed and its adapter stopped:  *)
(* the transcription manager is finalized and gone and the adapter has     *)
(* left the meeting, as on the ENDED path.                                 *)
C36_FailedSessionIsClosed ==
    (session.state = FAILED /\ session.error_message = "<error>")
        ~> (~session.transcription_manager /\ ~adapter_running)

(* C37: only audio that was forwarded to the provider counts as activity:  *)
(* an add_audio whose chunk is dropped because the handler is not          *)
(* connected leaves the speaker's last-activity time as it was.            *)
C37_DroppedChunkIsNotActivity ==
    [][ (a_pc = "send" /\ a_pc' = "idle" /\ tm_last' = Dropped) =>
            _last_audio_time' = _last_audio_time ]_vars

(* C38: a speaker name that arrives after the speaker's stream was made is *)
(* applied to it: a transcript event emitted for a speaker whose name      *)
(* add_audio has been given carries that name.                             *)
C38_LateNameIsApplied ==
    [][ (tm_last'.op = "on_message"
            /\ tm_last'.speaker_id \in DOMAIN _speaker_names) =>
          tm_last'.speaker_name = _speaker_names[tm_last'.speaker_id] ]_vars

(* C39: in every state of a manager the speakers with a registered handler *)
(* are the speakers with a last-activity time, however add_audio on the    *)
(* platform's thread interleaves with the sweep and finish_all; and        *)
(* add_audio never sends to a handler that the sweep or finish_all has     *)
(* taken out.                                                              *)
C39_HandlersMatchActivity ==
    /\ DOMAIN _handlers = DOMAIN _last_audio_time
    /\ a_pc = "send" => a_call.handler \in Values(_handlers)

(* C40: the idle sweep is safe against concurrent audio: it never raises,  *)
(* whatever add_audio does between its steps.                              *)
C40_SweepNeverRaises ==
    tm_last # Raised("cleanup_idle_handlers")

====
